---- MODULE Spec2Model ----
(***************************************************************************)
(* A model of flou's document pipeline (crates/flou/src/parts): the grid   *)
(* index and its walk, attribute and connection resolution, the merge of   *)
(* definitions with grid occurrences, the label table and destination      *)
(* resolution.                                                             *)
(*                                                                         *)
(* Flou::try_from is a pure function of a Document; it is modelled as a    *)
(* state machine whose initial states are documents drawn from bounded     *)
(* families and whose actions are the statements of try_from, in order.    *)
(* Grid::walk is modelled a second time as its loop, one iteration per     *)
(* step, under the specification SpecWalk.                                 *)
(***************************************************************************)
EXTENDS Integers, Sequences, FiniteSets, TLC

VARIABLES
    document,                \* the Document handed to Flou::try_from
    pc,                      \* the statement of try_from (or of walk) to run next
    grid,                    \* let grid = Grid::from(&document.grid)
    definitions,             \* MapId<Vec<NodeAttribute>>
    def_attrs_by_id,         \* first def_attrs (by identifier)
    def_connection_desc_map, \* MapId<Vec<ConnectionDescriptor>>
    def_attrs,               \* resolve_id_map(&grid, def_attrs)
    def_connections,         \* resolve_id_map(&grid, def_connections)
    grid_attrs,              \* MapPos<NodeAttributes>
    grid_conn_desc_map,      \* MapPos<Vec<ConnectionDescriptor>>
    grid_connections,        \* MapPos<Vec<UnresolvedConnection>>
    node_attributes,         \* Overwrite::overwrite(def_attrs, grid_attrs)
    connections,             \* Overwrite::overwrite(def_connections, grid_connections)
    labels,                  \* MapId<IndexPos>
    result,                  \* what try_from returns
    start,                   \* walk: its argument start (a PaddedPos)
    step,                    \* walk: its argument step (a PaddedPos)
    current,                 \* walk: let mut current
    walk_result,             \* walk: the value the loop breaks with
    walk_end,                \* padded_walk: its argument end (an Option<PaddedPos>)
    path_from,               \* get_path: its argument from, as a PosSide
    path_to,                 \* get_path: its argument to, as a PosSide
    ties_swapped,            \* get_path: the order sort_unstable_by leaves equal corners in
    path                     \* get_path: the Vec<PaddedPos> it returns

vars == <<document, pc, grid, definitions, def_attrs_by_id, def_connection_desc_map,
          def_attrs, def_connections, grid_attrs, grid_conn_desc_map, grid_connections,
          node_attributes, connections, labels, result,
          start, step, current, walk_result, walk_end,
          path_from, path_to, ties_swapped, path>>

pipeline_vars == <<definitions, def_attrs_by_id, def_connection_desc_map,
                   def_attrs, def_connections, grid_attrs, grid_conn_desc_map,
                   grid_connections, node_attributes, connections, labels, result>>

walk_vars == <<start, step, current, walk_result, walk_end>>

path_vars == <<path_from, path_to, ties_swapped, path>>

----------------------------------------------------------------------------
(* Option<T>, Result<T, E> and HashMap<K, V>                                *)

None == <<>>
Some(v) == <<v>>
IsSome(o) == o # None
Unwrap(o) == o[1]

Ok(v) == [ok |-> TRUE, val |-> v]
Err(e) == [ok |-> FALSE, err |-> e]

EmptyMap == <<>>
Restrict(m, keys) == [k \in keys |-> m[k]]

Max(a, b) == IF a >= b THEN a ELSE b

----------------------------------------------------------------------------
(* Positions (pos.rs) and directions (parse/ast.rs)                         *)

Pos(x, y) == [x |-> x, y |-> y]

PosAdd(a, b) == Pos(a.x + b.x, a.y + b.y)

Directions == {"North", "South", "West", "East"}

DirVec(dir) ==
    CASE dir = "North" -> Pos(0, -1)
      [] dir = "South" -> Pos(0, 1)
      [] dir = "West"  -> Pos(-1, 0)
      [] dir = "East"  -> Pos(1, 0)

in_bounds(p, bounds) == p.x >= 0 /\ p.x < bounds.x /\ p.y >= 0 /\ p.y < bounds.y

\* Rust's integer division truncates towards zero.
TruncDiv(a, b) == IF a >= 0 THEN a \div b ELSE -((-a) \div b)

PADDING == 1

IndexToPadded(p) == Pos(p.x * (PADDING + 1) + PADDING, p.y * (PADDING + 1) + PADDING)

PaddedToIndex(p) == Pos(TruncDiv(p.x - PADDING, PADDING + 1), TruncDiv(p.y - PADDING, PADDING + 1))

----------------------------------------------------------------------------
(* The AST (parse/ast.rs).  A grid is its rows of optional nodes; a node    *)
(* attribute carries its kind, its string (text, class, shape) and its      *)
(* descriptors (connect).                                                   *)

Itself == [tag |-> "Itself", dir |-> "", label |-> ""]
Relative(dir) == [tag |-> "Relative", dir |-> dir, label |-> ""]
Label(l) == [tag |-> "Label", dir |-> "", label |-> l]

ConnAttr(kind, val) == [kind |-> kind, val |-> val]

Descriptor(to, sides, attrs) == [to |-> to, sides |-> sides, attrs |-> attrs]

Text(s) == [kind |-> "text", str |-> s, descs |-> <<>>]
Class(s) == [kind |-> "class", str |-> s, descs |-> <<>>]
Shape(s) == [kind |-> "shape", str |-> s, descs |-> <<>>]
Connect(descs) == [kind |-> "connect", str |-> "", descs |-> descs]

as_key(attribute) == attribute.kind

Node(id, label, attrs) == [id |-> id, label |-> label, attrs |-> attrs]

RECURSIVE RowNodes(_, _, _)
RowNodes(row, x, y) ==
    IF x >= Len(row) THEN <<>>
    ELSE (IF IsSome(row[x + 1])
          THEN <<[pos |-> Pos(x, y), node |-> Unwrap(row[x + 1])]>>
          ELSE <<>>) \o RowNodes(row, x + 1, y)

RECURSIVE NodesFrom(_, _)
NodesFrom(rows, y) ==
    IF y >= Len(rows) THEN <<>>
    ELSE RowNodes(rows[y + 1], 0, y) \o NodesFrom(rows, y + 1)

\* ast::Grid::nodes: the occupied cells in row-major order.
nodes(ast_grid) == NodesFrom(ast_grid, 0)

RECURSIVE MaxLen(_, _)
MaxLen(rows, y) ==
    IF y > Len(rows) THEN 0 ELSE Max(Len(rows[y]), MaxLen(rows, y + 1))

size(ast_grid) == Pos(MaxLen(ast_grid, 1), Len(ast_grid))

----------------------------------------------------------------------------
(* The grid index (parts/grid.rs)                                           *)

Range(s) == {s[i] : i \in DOMAIN s}

GridFrom(ast_grid) ==
    LET ns == nodes(ast_grid)
        ids == {ns[i].node.id : i \in DOMAIN ns}
        padded == [i \in DOMAIN ns |-> [pos |-> IndexToPadded(ns[i].pos), id |-> ns[i].node.id]]
    IN  [size |-> size(ast_grid),
         position_to_id |-> [p \in {padded[i].pos : i \in DOMAIN ns} |->
                                padded[CHOOSE i \in DOMAIN ns : padded[i].pos = p].id],
         id_to_positions |-> [id \in ids |->
                                LET sel == SelectSeq(padded, LAMBDA e : e.id = id)
                                IN  [i \in DOMAIN sel |-> sel[i].pos]]]

get_positions(g, id) ==
    IF id \in DOMAIN g.id_to_positions
    THEN Some([i \in DOMAIN g.id_to_positions[id] |-> PaddedToIndex(g.id_to_positions[id][i])])
    ELSE None

\* get_id with the bounds taken in cells, not in padded positions.
get_id_bounds_in_cells(g, p) ==
    IF in_bounds(p, g.size)
    THEN Some(IF p \in DOMAIN g.position_to_id THEN Some(g.position_to_id[p]) ELSE None)
    ELSE None

\* None: out of bounds; Some(None): an empty position; Some(Some(id)): a node.
get_id(g, p) ==
    IF in_bounds(p, IndexToPadded(g.size))
    THEN Some(IF p \in DOMAIN g.position_to_id THEN Some(g.position_to_id[p]) ELSE None)
    ELSE None

\* Grid::walk as a function: the value its loop breaks with.
RECURSIVE walk(_, _, _)
walk(g, from, by) ==
    LET next == PosAdd(from, by)
        found == get_id(g, next)
    IN  IF found = None THEN None
        ELSE IF IsSome(Unwrap(found)) THEN Some(next)
        ELSE walk(g, next, by)

InvalidDirection(dir) == [tag |-> "InvalidDirection", dir |-> dir, label |-> ""]
UnknownLabel(l) == [tag |-> "UnknownLabel", dir |-> "", label |-> l]

\* The results a call of normalize_destination may give when no arm of its
\* match applies to the destination: any value of its return type
\* Result<PaddedPos, ResolutionError>.  Only Destination::Itself is matched by
\* no arm, so the choice is read only when a connection has that destination.
UnmatchedResults(g, connections_map) ==
    IF \E p \in DOMAIN connections_map : \E i \in DOMAIN connections_map[p] :
            connections_map[p][i].to.tag = "Itself"
    THEN {Ok(Pos(x, y)) : x \in 0..(2 * g.size.x), y \in 0..(2 * g.size.y)}
         \cup {Err(InvalidDirection(d)) : d \in Directions}
         \cup {Err(UnknownLabel("l1"))}
    ELSE {Err(InvalidDirection("North"))}

\* normalize_destination walking from the origin's index position, not from
\* its padded position.
normalize_destination_from_index(g, from, to, label_map, unmatched) ==
    CASE to.tag = "Relative" ->
            LET found == walk(g, from, DirVec(to.dir))
            IN  IF IsSome(found) THEN Ok(Unwrap(found)) ELSE Err(InvalidDirection(to.dir))
      [] to.tag = "Label" ->
            IF to.label \in DOMAIN label_map
            THEN Ok(IndexToPadded(label_map[to.label]))
            ELSE Err(UnknownLabel(to.label))
      [] OTHER -> unmatched

\* The match of the source has the two arms Relative and Label; unmatched is
\* the result of a call that neither arm matches.
normalize_destination(g, from, to, label_map, unmatched) ==
    CASE to.tag = "Relative" ->
            LET found == walk(g, IndexToPadded(from), DirVec(to.dir))
            IN  IF IsSome(found) THEN Ok(Unwrap(found)) ELSE Err(InvalidDirection(to.dir))
      [] to.tag = "Label" ->
            IF to.label \in DOMAIN label_map
            THEN Ok(IndexToPadded(label_map[to.label]))
            ELSE Err(UnknownLabel(to.label))
      [] OTHER -> unmatched

----------------------------------------------------------------------------
(* Attribute and connection resolution (parts/flou.rs)                      *)

DefaultNodeAttributes == [text |-> None, class |-> None, shape |-> None]

RECURSIVE NodeAttributesLoop(_, _, _, _, _)
NodeAttributesLoop(attributes, i, res, duplicates, conn_descriptors) ==
    IF i > Len(attributes)
    THEN [res |-> res, duplicates |-> duplicates, conn_descriptors |-> conn_descriptors]
    ELSE LET attribute == attributes[i] IN
         IF attribute.kind = "text" /\ res.text = None
         THEN NodeAttributesLoop(attributes, i + 1, [res EXCEPT !.text = Some(attribute.str)],
                                 duplicates, conn_descriptors)
         ELSE IF attribute.kind = "class" /\ res.class = None
         THEN NodeAttributesLoop(attributes, i + 1, [res EXCEPT !.class = Some(attribute.str)],
                                 duplicates, conn_descriptors)
         ELSE IF attribute.kind = "shape" /\ res.shape = None
         THEN NodeAttributesLoop(attributes, i + 1, [res EXCEPT !.shape = Some(attribute.str)],
                                 duplicates, conn_descriptors)
         ELSE IF attribute.kind = "connect" /\ conn_descriptors = None
         THEN NodeAttributesLoop(attributes, i + 1, res, duplicates, Some(attribute.descs))
         ELSE NodeAttributesLoop(attributes, i + 1, res,
                                 duplicates \cup {as_key(attribute)}, conn_descriptors)

\* parse_node_attributes returning at the first duplicate it meets.
parse_node_attributes_first_duplicate(attributes) ==
    LET r == NodeAttributesLoop(attributes, 1, DefaultNodeAttributes, {}, None)
        repeated == {i \in DOMAIN attributes :
                        \E j \in 1..(i - 1) : attributes[j].kind = attributes[i].kind}
    IN  IF repeated = {}
        THEN Ok([attrs |-> r.res, conn_descriptors |-> r.conn_descriptors])
        ELSE Err({attributes[CHOOSE i \in repeated : \A j \in repeated : i <= j].kind})

parse_node_attributes(attributes) ==
    LET r == NodeAttributesLoop(attributes, 1, DefaultNodeAttributes, {}, None)
    IN  IF r.duplicates = {}
        THEN Ok([attrs |-> r.res, conn_descriptors |-> r.conn_descriptors])
        ELSE Err(r.duplicates)

DefaultConnectionAttributes == [text |-> None, class |-> None]

\* ConnectionAttributes has the fields text and class; every other attribute
\* (arrowheads) takes the catch-all arm.
RECURSIVE ConnectionAttributesLoop(_, _, _, _)
ConnectionAttributesLoop(attributes, i, res, duplicates) ==
    IF i > Len(attributes)
    THEN [res |-> res, duplicates |-> duplicates]
    ELSE LET attribute == attributes[i] IN
         IF attribute.kind = "text" /\ res.text = None
         THEN ConnectionAttributesLoop(attributes, i + 1,
                                       [res EXCEPT !.text = Some(attribute.val)], duplicates)
         ELSE IF attribute.kind = "class" /\ res.class = None
         THEN ConnectionAttributesLoop(attributes, i + 1,
                                       [res EXCEPT !.class = Some(attribute.val)], duplicates)
         ELSE ConnectionAttributesLoop(attributes, i + 1, res,
                                       duplicates \cup {attribute.kind})

ConnectionAttributesTryFrom(attributes) ==
    LET r == ConnectionAttributesLoop(attributes, 1, DefaultConnectionAttributes, {})
    IN  IF r.duplicates = {} THEN Ok(r.res) ELSE Err(r.duplicates)

\* try_into_label_map without the removal of the unique labels from the error.
try_into_label_map_keeps_unique(ast_grid) ==
    LET ns == nodes(ast_grid)
        labelled == {i \in DOMAIN ns : IsSome(ns[i].node.label)}
        positions == [l \in {Unwrap(ns[i].node.label) : i \in labelled} |->
                        {ns[i].pos : i \in {j \in labelled : Unwrap(ns[j].node.label) = l}}]
        unique_labels == {l \in DOMAIN positions : Cardinality(positions[l]) = 1}
        label_map == [l \in unique_labels |-> CHOOSE p \in positions[l] : TRUE]
    IN  IF Cardinality(unique_labels) < Cardinality(DOMAIN positions)
        THEN Err(positions)
        ELSE Ok(label_map)

\* The positions of every label, then the labels with one position.
try_into_label_map(ast_grid) ==
    LET ns == nodes(ast_grid)
        labelled == {i \in DOMAIN ns : IsSome(ns[i].node.label)}
        positions == [l \in {Unwrap(ns[i].node.label) : i \in labelled} |->
                        {ns[i].pos : i \in {j \in labelled : Unwrap(ns[j].node.label) = l}}]
        unique_labels == {l \in DOMAIN positions : Cardinality(positions[l]) = 1}
        label_map == [l \in unique_labels |-> CHOOSE p \in positions[l] : TRUE]
    IN  IF Cardinality(unique_labels) < Cardinality(DOMAIN positions)
        THEN Err(Restrict(positions, DOMAIN positions \ unique_labels))
        ELSE Ok(label_map)

\* Shared by get_attributes_from_definitions (keys: identifiers) and
\* get_attributes_from_grid (keys: positions): raw maps a key to its attribute list.
GetAttributes(raw) ==
    LET parsed == [k \in DOMAIN raw |-> parse_node_attributes(raw[k])]
        good == {k \in DOMAIN raw : parsed[k].ok}
        errors == [k \in DOMAIN raw \ good |-> parsed[k].err]
        map_node_attrs == [k \in good |-> parsed[k].val.attrs]
        map_connection_descriptors ==
            [k \in {g \in good : IsSome(parsed[g].val.conn_descriptors)} |->
                Unwrap(parsed[k].val.conn_descriptors)]
    IN  IF errors = EmptyMap
        THEN Ok([attrs |-> map_node_attrs, descs |-> map_connection_descriptors])
        ELSE Err(errors)

get_attributes_from_definitions(defs) == GetAttributes(defs)

get_attributes_from_grid(ast_grid) ==
    LET ns == nodes(ast_grid)
    IN  GetAttributes([p \in {ns[i].pos : i \in DOMAIN ns} |->
                          ns[CHOOSE i \in DOMAIN ns : ns[i].pos = p].node.attrs])

RECURSIVE UniqueLoop(_, _, _, _)
UniqueLoop(defs, i, res, duplicates) ==
    IF i > Len(defs) THEN [res |-> res, duplicates |-> duplicates]
    ELSE IF defs[i].id \notin DOMAIN res
         THEN UniqueLoop(defs, i + 1, (defs[i].id :> defs[i].attrs) @@ res, duplicates)
         ELSE UniqueLoop(defs, i + 1, res, duplicates \cup {defs[i].id})

\* ensure_definitions_are_unique comparing a definition with the one before it only.
ensure_definitions_are_unique_adjacent(defs) ==
    LET r == UniqueLoop(defs, 1, EmptyMap, {})
        duplicates == {defs[i].id : i \in {j \in 2..Len(defs) : defs[j].id = defs[j - 1].id}}
    IN  IF duplicates = {} THEN Ok(r.res) ELSE Err(duplicates)

ensure_definitions_are_unique(defs) ==
    LET r == UniqueLoop(defs, 1, EmptyMap, {})
    IN  IF r.duplicates = {} THEN Ok(r.res) ELSE Err(r.duplicates)

UnresolvedConnection(to, sides, attrs) == [to |-> to, sides |-> sides, attrs |-> attrs]

\* Indices are those of enumerate(): 0-based.
parse_connection_desc_map(desc_map) ==
    LET parsed == [k \in DOMAIN desc_map |->
                     [i \in DOMAIN desc_map[k] |-> ConnectionAttributesTryFrom(desc_map[k][i].attrs)]]
        bad(k) == {i \in DOMAIN desc_map[k] : ~parsed[k][i].ok}
        errors == [k \in {j \in DOMAIN desc_map : bad(j) # {}} |->
                     [n \in {i - 1 : i \in bad(k)} |-> parsed[k][n + 1].err]]
        value(k) ==
            LET all == [i \in DOMAIN desc_map[k] |->
                          [ok |-> parsed[k][i].ok,
                           conn |-> UnresolvedConnection(
                                        desc_map[k][i].to, desc_map[k][i].sides,
                                        IF parsed[k][i].ok THEN parsed[k][i].val
                                        ELSE DefaultConnectionAttributes)]]
                kept == SelectSeq(all, LAMBDA e : e.ok)
            IN  [i \in DOMAIN kept |-> kept[i].conn]
        res == [k \in DOMAIN desc_map |-> value(k)]
    IN  IF errors = EmptyMap THEN Ok(res) ELSE Err(errors)

Connection(from, to, attrs) == [from |-> from, to |-> to, attrs |-> attrs]

\* order is the order in which the HashMap connections_map is iterated.
RECURSIVE ResolveLoop(_, _, _, _, _, _, _, _)
ResolveLoop(g, label_map, connections_map, order, unmatched, k, res, errors) ==
    IF k > Len(order) THEN [res |-> res, errors |-> errors]
    ELSE LET from == order[k]
             conns == connections_map[from]
             norm == [i \in DOMAIN conns |-> normalize_destination(g, from, conns[i].to, label_map, unmatched)]
             all == [i \in DOMAIN conns |->
                       [ok |-> norm[i].ok,
                        conn |-> Connection([pos |-> from, side |-> conns[i].sides[1]],
                                            [pos |-> IF norm[i].ok THEN norm[i].val ELSE from,
                                             side |-> conns[i].sides[2]],
                                            conns[i].attrs)]]
             kept == SelectSeq(all, LAMBDA e : e.ok)
             bad == {i \in DOMAIN conns : ~norm[i].ok}
         IN  ResolveLoop(g, label_map, connections_map, order, unmatched, k + 1,
                         res \o [i \in DOMAIN kept |-> kept[i].conn],
                         IF bad = {} THEN errors
                         ELSE (from :> [n \in {i - 1 : i \in bad} |-> norm[n + 1].err]) @@ errors)

\* resolve_connections_map returning at the first connection that fails.
resolve_connections_map_first_error(g, label_map, connections_map, order, unmatched) ==
    LET r == ResolveLoop(g, label_map, connections_map, order, unmatched, 1, <<>>, EmptyMap)
        first == CHOOSE k \in DOMAIN order :
                    /\ order[k] \in DOMAIN r.errors
                    /\ \A j \in 1..(k - 1) : order[j] \notin DOMAIN r.errors
        from == order[first]
        i == CHOOSE n \in DOMAIN r.errors[from] : \A m \in DOMAIN r.errors[from] : n <= m
    IN  IF r.errors = EmptyMap THEN Ok(r.res)
        ELSE Err(from :> (i :> r.errors[from][i]))

\* resolve_connections_map returning the connections last to first.
resolve_connections_map_reversed(g, label_map, connections_map, order, unmatched) ==
    LET r == ResolveLoop(g, label_map, connections_map, order, unmatched, 1, <<>>, EmptyMap)
    IN  IF r.errors = EmptyMap
        THEN Ok([i \in DOMAIN r.res |-> r.res[Len(r.res) + 1 - i]])
        ELSE Err(r.errors)

resolve_connections_map(g, label_map, connections_map, order, unmatched) ==
    LET r == ResolveLoop(g, label_map, connections_map, order, unmatched, 1, <<>>, EmptyMap)
    IN  IF r.errors = EmptyMap THEN Ok(r.res) ELSE Err(r.errors)

\* resolve_id_map inserting at the first position of an identifier only.
resolve_id_map_first_position(g, map_id) ==
    LET used == {id \in DOMAIN map_id : IsSome(get_positions(g, id))}
        at(id) == {Unwrap(get_positions(g, id))[1]}
    IN  [p \in UNION {at(id) : id \in used} |->
            map_id[CHOOSE id \in used : p \in at(id)]]

resolve_id_map(g, map_id) ==
    LET used == {id \in DOMAIN map_id : IsSome(get_positions(g, id))}
        at(id) == Range(Unwrap(get_positions(g, id)))
    IN  [p \in UNION {at(id) : id \in used} |->
            map_id[CHOOSE id \in used : p \in at(id)]]

\* Overwrite for NodeAttributes taking the new record whole.
OverwriteNodeAttributesWhole(old, new) == new

OverwriteNodeAttributes(old, new) ==
    [text  |-> IF IsSome(new.text) THEN new.text ELSE old.text,
     class |-> IF IsSome(new.class) THEN new.class ELSE old.class,
     shape |-> IF IsSome(new.shape) THEN new.shape ELSE old.shape]

\* Overwrite for Vec<T> appending the new list to the old one.
OverwriteVecAppend(old, new) == old \o new

OverwriteVec(old, new) == new

\* Overwrite for HashMap<Id, NodeAttributes>, through Overwrite for
\* Option<NodeAttributes>.
OverwriteNodeAttributesMap(old, new) ==
    [k \in DOMAIN old \cup DOMAIN new |->
        IF k \in DOMAIN new
        THEN (IF k \in DOMAIN old
              THEN OverwriteNodeAttributes(old[k], new[k])
              ELSE new[k])
        ELSE old[k]]

\* Overwrite for HashMap<Id, Vec<UnresolvedConnection>>, through Overwrite
\* for Option<Vec<UnresolvedConnection>>.
OverwriteConnectionsMap(old, new) ==
    [k \in DOMAIN old \cup DOMAIN new |->
        IF k \in DOMAIN new
        THEN (IF k \in DOMAIN old
              THEN OverwriteVec(old[k], new[k])
              ELSE new[k])
        ELSE old[k]]

----------------------------------------------------------------------------
(* The router (render_svg/path.rs).  A FreeAxisCount is a record of the     *)
(* number of free axes and, for One, of the axis; its derived order is      *)
(* Zero < One(X) < One(Y) < Two.                                            *)

\* Direction::rotate_counter_clockwise in the place of rotate_clockwise.
rotate_counter_clockwise(dir) ==
    CASE dir = "North" -> "West"
      [] dir = "South" -> "East"
      [] dir = "West"  -> "South"
      [] dir = "East"  -> "North"

rotate_clockwise(dir) ==
    CASE dir = "North" -> "East"
      [] dir = "South" -> "West"
      [] dir = "West"  -> "North"
      [] dir = "East"  -> "South"

from_dir(dir) == IF dir \in {"North", "South"} THEN "Y" ELSE "X"

Zero == [count |-> 0, axis |-> ""]
One(axis) == [count |-> 1, axis |-> axis]
Two == [count |-> 2, axis |-> ""]

\* x & 1 == 1, also of a negative x in two's complement.
grid_x_aligned(p) == p.x % 2 = 1
grid_y_aligned(p) == p.y % 2 = 1
grid_aligned(p) == grid_x_aligned(p) /\ grid_y_aligned(p)

from_pos(p) ==
    CASE ~grid_x_aligned(p) /\ ~grid_y_aligned(p) -> Two
      [] ~grid_x_aligned(p) /\ grid_y_aligned(p)  -> One("Y")
      [] grid_x_aligned(p) /\ ~grid_y_aligned(p)  -> One("X")
      [] grid_x_aligned(p) /\ grid_y_aligned(p)   -> Zero

\* The rank of a FreeAxisCount in its derived order.
FreeAxisRank(c) ==
    CASE c.count = 0 -> 0
      [] c.count = 1 /\ c.axis = "X" -> 1
      [] c.count = 1 /\ c.axis = "Y" -> 2
      [] c.count = 2 -> 3

x_direction(from, to) ==
    IF from.x < to.x THEN Some("East")
    ELSE IF from.x > to.x THEN Some("West")
    ELSE None

y_direction(from, to) ==
    IF from.y < to.y THEN Some("South")
    ELSE IF from.y > to.y THEN Some("North")
    ELSE None

straight_line(from, to) ==
    LET distance == Pos(to.x - from.x, to.y - from.y)
    IN  IF (distance.x = 0) = (distance.y = 0) THEN None
        ELSE IF distance.y = 0 THEN x_direction(from, to)
        ELSE y_direction(from, to)

x_distance(from, to) == IF from.x > to.x THEN from.x - to.x ELSE to.x - from.x
y_distance(from, to) == IF from.y > to.y THEN from.y - to.y ELSE to.y - from.y
taxicab(from, to) == x_distance(from, to) + y_distance(from, to)

PosSide(origin, side) == [origin |-> origin, side |-> side]

\* impl From<PosSide> for PaddedPos: the link point of a side of a cell.
LinkPoint(x) == PosAdd(IndexToPadded(x.origin), DirVec(x.side))

\* None: out of bounds; Some(None): a lane or an empty cell; Some(Some(id)):
\* a node.  pos.into() is the cell of a grid-aligned position, which the
\* Grid holds under its padded position.
padded_get_id(g, p) ==
    IF in_bounds(p, IndexToPadded(g.size))
    THEN Some(IF grid_aligned(p) /\ IndexToPadded(PaddedToIndex(p)) \in DOMAIN g.position_to_id
              THEN Some(g.position_to_id[IndexToPadded(PaddedToIndex(p))])
              ELSE None)
    ELSE None

\* padded_walk without the test for the end position.
RECURSIVE padded_walk_ignoring_end(_, _, _, _)
padded_walk_ignoring_end(g, from, end, by) ==
    LET next == PosAdd(from, by)
        found == padded_get_id(g, next)
    IN  IF found = None THEN None
        ELSE IF IsSome(Unwrap(found)) THEN Some(next)
        ELSE padded_walk_ignoring_end(g, next, end, by)

\* end is an Option<PaddedPos>.
RECURSIVE padded_walk(_, _, _, _)
padded_walk(g, from, end, by) ==
    LET next == PosAdd(from, by)
        found == padded_get_id(g, next)
    IN  IF IsSome(end) /\ next = Unwrap(end)
        THEN (IF found = None THEN None
              ELSE IF IsSome(Unwrap(found)) THEN Some(next)
              ELSE None)
        ELSE IF found = None THEN None
        ELSE IF IsSome(Unwrap(found)) THEN Some(next)
        ELSE padded_walk(g, next, end, by)

\* line_does_not_overlap_nodes on two padded positions (its inner function).
line_does_not_overlap_nodes(g, from, to) ==
    LET dir == straight_line(from, to)
        free == from_pos(from)
    IN  IF IsSome(dir) /\ free.count = 1
        THEN (IF from_dir(Unwrap(dir)) = free.axis THEN TRUE
              ELSE LET dest == padded_walk(g, from, Some(to), DirVec(Unwrap(dir)))
                   IN  IF IsSome(dest) THEN Unwrap(dest) = to ELSE TRUE)
        ELSE FALSE

\* can_make_direct_connection looking at the leg from the first link point only.
can_make_direct_connection_first_leg(g, from, to, corner) ==
    line_does_not_overlap_nodes(g, LinkPoint(from), corner)

can_make_direct_connection(g, from, to, corner) ==
    /\ line_does_not_overlap_nodes(g, LinkPoint(from), corner)
    /\ line_does_not_overlap_nodes(g, LinkPoint(to), corner)

Corner(p, lane_count) == [pos |-> p, lane_count |-> lane_count]

\* The corners sorted from the most to the fewest free axes.
SortedCornersDescending(c0, c1, swapped) ==
    IF FreeAxisRank(c0.lane_count) > FreeAxisRank(c1.lane_count) THEN <<c0, c1>>
    ELSE IF FreeAxisRank(c0.lane_count) < FreeAxisRank(c1.lane_count) THEN <<c1, c0>>
    ELSE IF swapped THEN <<c1, c0>>
    ELSE <<c0, c1>>

\* corners.sort_unstable_by(lane count): an unstable sort may put two corners
\* of equal lane count in either order; swapped tells which one the build
\* puts them in.
SortedCorners(c0, c1, swapped) ==
    IF FreeAxisRank(c0.lane_count) < FreeAxisRank(c1.lane_count) THEN <<c0, c1>>
    ELSE IF FreeAxisRank(c0.lane_count) > FreeAxisRank(c1.lane_count) THEN <<c1, c0>>
    ELSE IF swapped THEN <<c1, c0>>
    ELSE <<c0, c1>>

\* The result of a call that reaches unreachable!().
Panicked == [pos |-> Pos(0, 0), lane_count |-> [count |-> -1, axis |-> ""]]

\* get_best_corner trying the corner with more free axes first.
get_best_corner_larger_first(g, a, b, swapped) ==
    LET a_pos == LinkPoint(a)
        b_pos == LinkPoint(b)
        turned == PosAdd(a_pos, DirVec(rotate_clockwise(a.side)))
        corners == SortedCorners(Corner(Pos(a_pos.x, b_pos.y), from_pos(Pos(a_pos.x, b_pos.y))),
                                 Corner(Pos(b_pos.x, a_pos.y), from_pos(Pos(b_pos.x, a_pos.y))),
                                 swapped)
        smaller == corners[1]
        larger == corners[2]
    IN  IF IsSome(straight_line(a_pos, b_pos)) THEN Corner(turned, from_pos(turned))
        ELSE IF smaller.lane_count.count = 0
        THEN larger
        ELSE IF smaller.lane_count.count = 1
        THEN (IF can_make_direct_connection(g, a, b, larger.pos)
              THEN Corner(larger.pos, Two)
              ELSE IF can_make_direct_connection(g, a, b, smaller.pos)
              THEN Corner(smaller.pos, Two)
              ELSE larger)
        ELSE Panicked

\* get_best_corner: the corner at which the path from a to b turns, with the
\* free-axis count get_path is to treat it with (Two: turn there directly).
get_best_corner(g, a, b, swapped) ==
    LET a_pos == LinkPoint(a)
        b_pos == LinkPoint(b)
        turned == PosAdd(a_pos, DirVec(rotate_clockwise(a.side)))
        corners == SortedCorners(Corner(Pos(a_pos.x, b_pos.y), from_pos(Pos(a_pos.x, b_pos.y))),
                                 Corner(Pos(b_pos.x, a_pos.y), from_pos(Pos(b_pos.x, a_pos.y))),
                                 swapped)
        smaller == corners[1]
        larger == corners[2]
    IN  IF IsSome(straight_line(a_pos, b_pos)) THEN Corner(turned, from_pos(turned))
        ELSE IF smaller.lane_count.count = 0
        THEN (IF can_make_direct_connection(g, a, b, smaller.pos)
              THEN Corner(smaller.pos, Two)
              ELSE larger)
        ELSE IF smaller.lane_count.count = 1
        THEN (IF can_make_direct_connection(g, a, b, smaller.pos)
              THEN Corner(smaller.pos, Two)
              ELSE IF can_make_direct_connection(g, a, b, larger.pos)
              THEN Corner(larger.pos, Two)
              ELSE larger)
        ELSE Panicked

\* No waypoint list: the call panicked.
NoPath == <<>>

\* make_connection leaving the two link points out.
make_connection_without_link_points(from, to, mid) ==
    <<IndexToPadded(from.origin)>> \o mid \o <<IndexToPadded(to.origin)>>

make_connection(from, to, mid) ==
    <<IndexToPadded(from.origin), LinkPoint(from)>> \o mid
        \o <<LinkPoint(to), IndexToPadded(to.origin)>>

\* The arm FreeAxisCount::One keeping the farther of the two neighbours.
NudgedCornerFarther(from, to, corner, free_axis) ==
    LET s_from == LinkPoint(from)
        s_to == LinkPoint(to)
        dirs == IF free_axis = "X" THEN <<"West", "East">> ELSE <<"North", "South">>
        candidates == [i \in 1..2 |-> [dir |-> dirs[i], corner |-> PosAdd(corner, DirVec(dirs[i]))]]
        key(c) == taxicab(s_from, c.corner) + taxicab(s_to, c.corner)
        chosen == IF key(candidates[1]) <= key(candidates[2]) THEN candidates[2] ELSE candidates[1]
    IN  (IF straight_line(s_from, chosen.corner) = None
         THEN <<PosAdd(s_from, DirVec(chosen.dir))>> ELSE <<>>)
        \o <<chosen.corner>>
        \o (IF straight_line(s_to, chosen.corner) = None
            THEN <<PosAdd(s_to, DirVec(chosen.dir))>> ELSE <<>>)

\* The arm FreeAxisCount::One(free_axis) of get_path.
NudgedCorner(from, to, corner, free_axis) ==
    LET s_from == LinkPoint(from)
        s_to == LinkPoint(to)
        dirs == IF free_axis = "X" THEN <<"West", "East">> ELSE <<"North", "South">>
        candidates == [i \in 1..2 |-> [dir |-> dirs[i], corner |-> PosAdd(corner, DirVec(dirs[i]))]]
        key(c) == taxicab(s_from, c.corner) + taxicab(s_to, c.corner)
        chosen == IF key(candidates[1]) <= key(candidates[2]) THEN candidates[1] ELSE candidates[2]
    IN  (IF straight_line(s_from, chosen.corner) = None
         THEN <<PosAdd(s_from, DirVec(chosen.dir))>> ELSE <<>>)
        \o <<chosen.corner>>
        \o (IF straight_line(s_to, chosen.corner) = None
            THEN <<PosAdd(s_to, DirVec(chosen.dir))>> ELSE <<>>)

\* get_path without the early return for coinciding link points.
get_path_without_coincidence_test(g, from, to, swapped) ==
    LET s_from == LinkPoint(from)
        s_to == LinkPoint(to)
        dir == straight_line(s_from, s_to)
        offset == DirVec(rotate_clockwise(Unwrap(dir)))
        best == get_best_corner(g, from, to, swapped)
    IN  IF PADDING # 1 THEN NoPath
        ELSE IF IsSome(dir)
        THEN (IF line_does_not_overlap_nodes(g, s_from, s_to)
              THEN make_connection(from, to, <<>>)
              ELSE make_connection(from, to, <<PosAdd(s_from, offset), PosAdd(s_to, offset)>>))
        ELSE IF best.lane_count.count = 2 THEN make_connection(from, to, <<best.pos>>)
        ELSE IF best.lane_count.count = 1
        THEN make_connection(from, to, NudgedCorner(from, to, best.pos, best.lane_count.axis))
        ELSE NoPath

\* from and to are PosSides; swapped is passed on to get_best_corner.
get_path(g, from, to, swapped) ==
    LET s_from == LinkPoint(from)
        s_to == LinkPoint(to)
        dir == straight_line(s_from, s_to)
        offset == DirVec(rotate_clockwise(Unwrap(dir)))
        best == get_best_corner(g, from, to, swapped)
    IN  IF PADDING # 1 THEN NoPath
        ELSE IF s_from = s_to THEN <<IndexToPadded(from.origin), IndexToPadded(to.origin)>>
        ELSE IF IsSome(dir)
        THEN (IF line_does_not_overlap_nodes(g, s_from, s_to)
              THEN make_connection(from, to, <<>>)
              ELSE make_connection(from, to, <<PosAdd(s_from, offset), PosAdd(s_to, offset)>>))
        ELSE IF best.lane_count.count = 2 THEN make_connection(from, to, <<best.pos>>)
        ELSE IF best.lane_count.count = 1
        THEN make_connection(from, to, NudgedCorner(from, to, best.pos, best.lane_count.axis))
        ELSE NoPath

----------------------------------------------------------------------------
(* The documents the pipeline is run on.  Each family varies one part of   *)
(* the document over every value within its bound and keeps the rest to    *)
(* the documents of the repository's tests.                                *)

MaxDefs == 4
MaxAttrs == 3
MaxConnAttrs == 3
MaxConns == 2
LabelRows == 2
WalkW == 4
WalkH == 2
MaxNodes == 3

SeqsUpTo(S, n) == UNION {[1..k -> S] : k \in 0..n}

Doc(ast_grid, defs) == [grid |-> ast_grid, definitions |-> defs]

Def(id, attrs) == [id |-> id, attrs |-> attrs]

Cell(id, attrs) == Some(Node(id, None, attrs))

\* grid { foo, bar; }
PlainRow == << <<Cell("foo", <<>>), Cell("bar", <<>>)>> >>

\* --- labels: every grid of LabelRows rows of two cells, each cell empty or a
\* node with no label or one of two labels.
LabelCells == {None} \cup {Some(Node("block", l, <<>>)) : l \in {None, Some("l1"), Some("l2")}}

LabelDocs == {Doc(g, <<>>) : g \in [1..LabelRows -> [1..2 -> LabelCells]]}

\* --- definitions: every list of at most MaxDefs definitions of foo and bar.
DefDocs ==
    {Doc(PlainRow, defs) :
        defs \in SeqsUpTo({Def(id, attrs) : id \in {"foo", "bar"},
                                            attrs \in {<<Text("A")>>, <<Class("B")>>}}, MaxDefs)}

\* --- node attributes: the first owner has every attribute list of at most
\* MaxAttrs attributes, the second one a list of the tests.
SimpleDesc(dir) == Descriptor(Relative(dir), <<"North", "North">>, <<>>)

NodeAttrAlphabet ==
    {Text("A"), Text("C"), Class("B"), Shape("rect"), Connect(<<SimpleDesc("East")>>)}

TestAttrLists ==
    { <<Text("hi")>>,
      <<Shape("rect"), Shape("diamond")>>,
      <<Shape("rect"), Text("hello"), Shape("diamond"),
        Connect(<<SimpleDesc("West")>>), Text("hey")>> }

NodeAttrDocs ==
    {Doc(PlainRow, <<Def("foo", l1), Def("bar", l2)>>) :
        l1 \in SeqsUpTo(NodeAttrAlphabet, MaxAttrs) \ {<<>>}, l2 \in TestAttrLists}
    \cup
    {Doc(<< <<Cell("foo", l1), Cell("bar", l2)>> >>, <<>>) :
        l1 \in SeqsUpTo(NodeAttrAlphabet, MaxAttrs), l2 \in TestAttrLists \cup {<<>>}}

\* --- connection attributes: one descriptor has every attribute list of at
\* most MaxConnAttrs attributes, at index 0 or 1 of its owner's connect list.
ConnAttrAlphabet ==
    {ConnAttr("text", "hi"), ConnAttr("text", "hello"),
     ConnAttr("class", "c"), ConnAttr("arrowheads", "end")}

TestConnAttrLists == { <<>>, <<ConnAttr("class", "hi"), ConnAttr("class", "hello")>> }

AttrDesc(dir, attrs) == Descriptor(Relative(dir), <<"North", "North">>, attrs)

ConnAttrConnects ==
    LET full == SeqsUpTo(ConnAttrAlphabet, MaxConnAttrs)
    IN  {<<AttrDesc("East", l)>> : l \in full}
        \cup {<<AttrDesc("East", l), AttrDesc("East", t)>> : l \in full, t \in TestConnAttrLists}
        \cup {<<AttrDesc("East", t), AttrDesc("East", l)>> : l \in full, t \in TestConnAttrLists}

TestConnects ==
    { <<AttrDesc("West", <<>>)>>,
      <<AttrDesc("West", <<ConnAttr("text", "hey"), ConnAttr("class", "hello")>>),
        AttrDesc("West", <<ConnAttr("class", "hi"), ConnAttr("class", "hello")>>)>> }

ConnAttrDocs ==
    {Doc(PlainRow, <<Def("foo", <<Connect(c1)>>), Def("bar", <<Connect(c2)>>)>>) :
        c1 \in ConnAttrConnects, c2 \in TestConnects}
    \cup
    {Doc(<< <<Cell("foo", <<Connect(c1)>>), Cell("bar", <<Connect(c2)>>)>> >>, <<>>) :
        c1 \in ConnAttrConnects, c2 \in TestConnects}
    \cup
    {Doc(PlainRow, <<Def("baz", <<Connect(c1)>>)>>) : c1 \in ConnAttrConnects}

\* --- merge of node attributes: every choice of the fields a definition and
\* a grid occurrence set.
RECURSIVE SubSeqs(_)
SubSeqs(s) ==
    IF s = <<>> THEN {<<>>}
    ELSE LET rest == SubSeqs(Tail(s))
         IN  rest \cup {<<Head(s)>> \o r : r \in rest}

DefFieldLists == SubSeqs(<<Text("A"), Class("D"), Shape("rect")>>) \ {<<>>}
GridFieldLists == SubSeqs(<<Text("C"), Class("B"), Shape("diamond")>>)

MergeDocs ==
    {Doc(<< <<Cell("foo", g), Cell("foo", <<>>), Cell("bar", <<>>)>> >>, defs) :
        g \in GridFieldLists,
        defs \in {<<>>}
                 \cup {<<Def("foo", d)>> : d \in DefFieldLists}
                 \cup {<<Def("bar", d)>> : d \in DefFieldLists}
                 \cup {<<Def("bar", <<Text("X")>>), Def("foo", d)>> : d \in DefFieldLists}}

\* --- connections: a grid of two rows of two cells, the first cell with or
\* without its own connect attribute, and a definition of foo or
\* of baz (which no cell uses) with every connect list of at most MaxConns
\* descriptors.
DefDesc(to) == Descriptor(to, <<"South", "North">>, <<>>)
OwnDesc(to) == Descriptor(to, <<"East", "West">>, <<>>)

ConnDestinations == {Relative(d) : d \in Directions} \cup {Label("l1")}

ConnLists == SeqsUpTo({DefDesc(to) : to \in ConnDestinations}, MaxConns)

ConnCells == {None, Cell("foo", <<>>), Cell("bar", <<>>)}

ConnFirstCells ==
    ConnCells \cup {Cell("foo", <<Connect(<<>>)>>),
                    Cell("foo", <<Connect(<<OwnDesc(Relative("East"))>>)>>)}

ConnDocs ==
    {Doc(<< <<c1, c2>>, <<c3, c4>> >>, defs) :
        c1 \in ConnFirstCells, c2 \in ConnCells, c3 \in ConnCells, c4 \in ConnCells,
        defs \in {<<>>}
                 \cup {<<Def("foo", <<Text("A"), Connect(cl)>>)>> : cl \in ConnLists}
                 \cup {<<Def("baz", <<Text("A"), Connect(cl)>>)>> : cl \in ConnLists}}

\* --- destinations: a grid of two rows of two cells with labels.  The first
\* cell has every connect list of at most MaxConns descriptors over the four
\* directions and two labels; the last cell has a connect list of its own.
\* The document of tests::invalid_destination is added as it stands.
LabelledCell(id, l, attrs) == Some(Node(id, l, attrs))

ResolveDestinations == {Relative(d) : d \in Directions} \cup {Label("l1"), Label("l2")}

ResolveLists == SeqsUpTo({OwnDesc(to) : to \in ResolveDestinations}, MaxConns)

ResolveLastLists ==
    { <<>>,
      <<DefDesc(Relative("West"))>>,
      <<DefDesc(Label("l3")), DefDesc(Relative("East")), DefDesc(Label("l1"))>> }

InvalidDestinationTest ==
    Doc(<< <<Cell("start", <<Connect(<<SimpleDesc("North")>>)>>)>>,
           <<Cell("middle", <<>>)>>,
           <<Cell("end", <<Connect(<<Descriptor(Label("foo"), <<"North", "North">>, <<>>),
                                     SimpleDesc("East")>>)>>)>> >>,
        <<Def("middle", <<Connect(<<SimpleDesc("North"), SimpleDesc("South")>>)>>)>>)

ResolveDocs ==
    {Doc(<< <<LabelledCell("a", None, <<Connect(cl)>>), c2>>, <<c3, c4>> >>, <<>>) :
        cl \in ResolveLists,
        c2 \in {None} \cup {LabelledCell("b", l, <<>>) : l \in {None, Some("l1"), Some("l2")}},
        c3 \in {None, LabelledCell("c", Some("l1"), <<>>)},
        c4 \in {None} \cup {LabelledCell("d", l, <<Connect(ll)>>) :
                                l \in {None, Some("l2")}, ll \in ResolveLastLists}}
    \cup {InvalidDestinationTest}

\* --- order of the checks: one document for every subset of seven faults,
\* fault n making the n-th check of try_from fail.  The grid is the row
\* foo, bar#l1, baz#l2 with a definition of foo.
RepeatedConnAttrs == <<ConnAttr("text", "hi"), ConnAttr("text", "hello")>>

OrderDoc(faults) ==
    Doc(<< << Cell("foo", <<>>),
              LabelledCell("bar", Some("l1"),
                  (IF 4 \in faults THEN <<Class("B"), Class("D")>> ELSE <<Class("B")>>)
                  \o <<Connect(<<Descriptor(
                          IF 7 \in faults THEN Relative("North") ELSE Relative("East"),
                          <<"East", "West">>,
                          IF 5 \in faults THEN RepeatedConnAttrs ELSE <<>>)>>)>>),
              LabelledCell("baz", IF 6 \in faults THEN Some("l1") ELSE Some("l2"), <<>>) >> >>,
        <<Def("foo",
              (IF 2 \in faults THEN <<Text("A"), Text("C")>> ELSE <<Text("A")>>)
              \o <<Connect(<<Descriptor(Relative("East"), <<"East", "West">>,
                                        IF 3 \in faults THEN RepeatedConnAttrs ELSE <<>>)>>)>>)>>
        \o (IF 1 \in faults THEN <<Def("foo", <<>>)>> ELSE <<>>))

OrderDocs == {OrderDoc(faults) : faults \in SUBSET (1..7)}

\* --- the destination Itself: a row of two cells, the first with every
\* connect list of at most MaxConns descriptors over Itself, East and West.
ItselfDestinations == {Itself, Relative("East"), Relative("West")}

ItselfLists ==
    SeqsUpTo({Descriptor(to, sides, <<>>) :
                 to \in ItselfDestinations,
                 sides \in {<<"North", "South">>, <<"East", "East">>}}, MaxConns)

ItselfDocs ==
    {Doc(<< <<Cell("foo", <<Connect(cl)>>), c2>> >>, <<>>) :
        cl \in ItselfLists, c2 \in {None, Cell("bar", <<>>)}}

\* --- rendering: the documents of ItselfDocs and a cell whose connection
\* names the cell's own label, leaving and entering on the same side.
SelfLabelDoc ==
    Doc(<< <<LabelledCell("foo", Some("l1"),
                <<Connect(<<Descriptor(Label("l1"), <<"North", "North">>, <<>>)>>)>>),
             Cell("bar", <<Connect(<<Descriptor(Relative("West"), <<"South", "South">>, <<>>)>>)>>)>> >>,
        <<>>)

RenderDocs == ItselfDocs \cup {SelfLabelDoc}

Documents == LabelDocs \cup DefDocs \cup NodeAttrDocs \cup ConnAttrDocs \cup MergeDocs \cup ConnDocs

----------------------------------------------------------------------------
(* Flou::try_from, one action per statement                                 *)

\* get_path has not been called.
NoCall ==
    /\ path_from = PosSide(Pos(0, 0), "North")
    /\ path_to = PosSide(Pos(0, 0), "North")
    /\ ties_swapped = FALSE
    /\ path = NoPath

Pending == [kind |-> "Pending"]
Failed(kind, err) == [kind |-> kind, err |-> err]
Built(conns, attrs) == [kind |-> "Ok", connections |-> conns, node_attributes |-> attrs]

Init ==
    /\ document \in Documents
    /\ pc = "grid_from"
    /\ grid = EmptyMap
    /\ definitions = EmptyMap
    /\ def_attrs_by_id = EmptyMap
    /\ def_connection_desc_map = EmptyMap
    /\ def_attrs = EmptyMap
    /\ def_connections = EmptyMap
    /\ grid_attrs = EmptyMap
    /\ grid_conn_desc_map = EmptyMap
    /\ grid_connections = EmptyMap
    /\ node_attributes = EmptyMap
    /\ connections = EmptyMap
    /\ labels = EmptyMap
    /\ result = Pending
    /\ start = Pos(0, 0)
    /\ step = Pos(0, 0)
    /\ current = Pos(0, 0)
    /\ walk_result = None
    /\ walk_end = <<>>
    /\ NoCall

\* let grid = Grid::from(&document.grid);
BuildGrid ==
    /\ pc = "grid_from"
    /\ grid' = GridFrom(document.grid)
    /\ pc' = "ensure_unique"
    /\ UNCHANGED <<document, pipeline_vars, walk_vars, path_vars>>

\* let definitions = ensure_definitions_are_unique(document.definitions)
\*     .map_err(LogicError::DuplicateDefinitions)?;
EnsureDefinitionsAreUnique ==
    /\ pc = "ensure_unique"
    /\ LET r == ensure_definitions_are_unique(document.definitions)
       IN  IF r.ok
           THEN /\ definitions' = r.val
                /\ pc' = "def_attrs"
                /\ UNCHANGED result
           ELSE /\ result' = Failed("DuplicateDefinitions", r.err)
                /\ pc' = "done"
                /\ UNCHANGED definitions
    /\ UNCHANGED <<document, grid, def_attrs_by_id, def_connection_desc_map, def_attrs,
                   def_connections, grid_attrs, grid_conn_desc_map, grid_connections,
                   node_attributes, connections, labels, walk_vars, path_vars>>

\* let (def_attrs, def_connection_desc_map) = get_attributes_from_definitions(definitions)
\*     .map_err(LogicError::DuplicateNodeAttributesInDefinitions)?;
GetAttributesFromDefinitions ==
    /\ pc = "def_attrs"
    /\ LET r == get_attributes_from_definitions(definitions)
       IN  IF r.ok
           THEN /\ def_attrs_by_id' = r.val.attrs
                /\ def_connection_desc_map' = r.val.descs
                /\ pc' = "def_connections"
                /\ UNCHANGED result
           ELSE /\ result' = Failed("DuplicateNodeAttributesInDefinitions", r.err)
                /\ pc' = "done"
                /\ UNCHANGED <<def_attrs_by_id, def_connection_desc_map>>
    /\ UNCHANGED <<document, grid, definitions, def_attrs, def_connections, grid_attrs,
                   grid_conn_desc_map, grid_connections, node_attributes, connections,
                   labels, walk_vars, path_vars>>

\* let def_connections = parse_connection_desc_map(def_connection_desc_map)
\*     .map_err(LogicError::DuplicateConnectionAttributesInDefinitions)?;
\* (resolve_id_map(&grid, def_attrs), resolve_id_map(&grid, def_connections))
ParseDefinitionConnections ==
    /\ pc = "def_connections"
    /\ LET r == parse_connection_desc_map(def_connection_desc_map)
       IN  IF r.ok
           THEN /\ def_attrs' = resolve_id_map(grid, def_attrs_by_id)
                /\ def_connections' = resolve_id_map(grid, r.val)
                /\ pc' = "grid_attrs"
                /\ UNCHANGED result
           ELSE /\ result' = Failed("DuplicateConnectionAttributesInDefinitions", r.err)
                /\ pc' = "done"
                /\ UNCHANGED <<def_attrs, def_connections>>
    /\ UNCHANGED <<document, grid, definitions, def_attrs_by_id, def_connection_desc_map,
                   grid_attrs, grid_conn_desc_map, grid_connections, node_attributes,
                   connections, labels, walk_vars, path_vars>>

\* try_from going on without the grid's attributes when they hold duplicates.
GetAttributesFromGridLenient ==
    /\ pc = "grid_attrs"
    /\ LET r == get_attributes_from_grid(document.grid)
       IN  /\ grid_attrs' = IF r.ok THEN r.val.attrs ELSE EmptyMap
           /\ grid_conn_desc_map' = IF r.ok THEN r.val.descs ELSE EmptyMap
    /\ pc' = "grid_connections"
    /\ UNCHANGED <<document, grid, definitions, def_attrs_by_id, def_connection_desc_map,
                   def_attrs, def_connections, grid_connections, node_attributes,
                   connections, labels, result, walk_vars, path_vars>>

\* let (grid_attrs, grid_conn_desc_map) = get_attributes_from_grid(&document.grid)
\*     .map_err(LogicError::DuplicateNodeAttributesInGrid)?;
GetAttributesFromGrid ==
    /\ pc = "grid_attrs"
    /\ LET r == get_attributes_from_grid(document.grid)
       IN  IF r.ok
           THEN /\ grid_attrs' = r.val.attrs
                /\ grid_conn_desc_map' = r.val.descs
                /\ pc' = "grid_connections"
                /\ UNCHANGED result
           ELSE /\ result' = Failed("DuplicateNodeAttributesInGrid", r.err)
                /\ pc' = "done"
                /\ UNCHANGED <<grid_attrs, grid_conn_desc_map>>
    /\ UNCHANGED <<document, grid, definitions, def_attrs_by_id, def_connection_desc_map,
                   def_attrs, def_connections, grid_connections, node_attributes,
                   connections, labels, walk_vars, path_vars>>

\* let grid_connections = parse_connection_desc_map(grid_conn_desc_map)
\*     .map_err(LogicError::DuplicateConnectionAttributesInGrid)?;
ParseGridConnections ==
    /\ pc = "grid_connections"
    /\ LET r == parse_connection_desc_map(grid_conn_desc_map)
       IN  IF r.ok
           THEN /\ grid_connections' = r.val
                /\ pc' = "overwrite"
                /\ UNCHANGED result
           ELSE /\ result' = Failed("DuplicateConnectionAttributesInGrid", r.err)
                /\ pc' = "done"
                /\ UNCHANGED grid_connections
    /\ UNCHANGED <<document, grid, definitions, def_attrs_by_id, def_connection_desc_map,
                   def_attrs, def_connections, grid_attrs, grid_conn_desc_map,
                   node_attributes, connections, labels, walk_vars, path_vars>>

\* let node_attributes = Overwrite::overwrite(def_attrs, grid_attrs);
\* let connections = Overwrite::overwrite(def_connections, grid_connections);
OverwriteDefinitions ==
    /\ pc = "overwrite"
    /\ node_attributes' = OverwriteNodeAttributesMap(def_attrs, grid_attrs)
    /\ connections' = OverwriteConnectionsMap(def_connections, grid_connections)
    /\ pc' = "labels"
    /\ UNCHANGED <<document, grid, definitions, def_attrs_by_id, def_connection_desc_map,
                   def_attrs, def_connections, grid_attrs, grid_conn_desc_map,
                   grid_connections, labels, result, walk_vars, path_vars>>

\* try_from going on with an empty label table when the labels are not unique.
TryIntoLabelMapLenient ==
    /\ pc = "labels"
    /\ LET r == try_into_label_map(document.grid)
       IN  labels' = IF r.ok THEN r.val ELSE EmptyMap
    /\ pc' = "resolve"
    /\ UNCHANGED <<document, grid, definitions, def_attrs_by_id, def_connection_desc_map,
                   def_attrs, def_connections, grid_attrs, grid_conn_desc_map,
                   grid_connections, node_attributes, connections, result, walk_vars, path_vars>>

\* let labels = try_into_label_map(&document.grid).map_err(LogicError::DuplicateLabels)?;
TryIntoLabelMap ==
    /\ pc = "labels"
    /\ LET r == try_into_label_map(document.grid)
       IN  IF r.ok
           THEN /\ labels' = r.val
                /\ pc' = "resolve"
                /\ UNCHANGED result
           ELSE /\ result' = Failed("DuplicateLabels", r.err)
                /\ pc' = "done"
                /\ UNCHANGED labels
    /\ UNCHANGED <<document, grid, definitions, def_attrs_by_id, def_connection_desc_map,
                   def_attrs, def_connections, grid_attrs, grid_conn_desc_map,
                   grid_connections, node_attributes, connections, walk_vars, path_vars>>

Orders(keys) ==
    {o \in [1..Cardinality(keys) -> keys] : \A k \in keys : \E i \in DOMAIN o : o[i] = k}

\* let connections = resolve_connections_map(&grid, &labels, connections)
\*     .map_err(LogicError::InvalidDestination)?;
\* Ok(Self { grid, connections, node_attributes })
ResolveConnectionsMap ==
    /\ pc = "resolve"
    /\ \E order \in Orders(DOMAIN connections) :
       \E unmatched \in UnmatchedResults(grid, connections) :
          LET r == resolve_connections_map(grid, labels, connections, order, unmatched)
          IN  result' = IF r.ok THEN Built(r.val, node_attributes)
                        ELSE Failed("InvalidDestination", r.err)
    /\ pc' = "done"
    /\ UNCHANGED <<document, grid, definitions, def_attrs_by_id, def_connection_desc_map,
                   def_attrs, def_connections, grid_attrs, grid_conn_desc_map,
                   grid_connections, node_attributes, connections, labels, walk_vars, path_vars>>

Next ==
    \/ BuildGrid
    \/ EnsureDefinitionsAreUnique
    \/ GetAttributesFromDefinitions
    \/ ParseDefinitionConnections
    \/ GetAttributesFromGrid
    \/ ParseGridConnections
    \/ OverwriteDefinitions
    \/ TryIntoLabelMap
    \/ ResolveConnectionsMap

Spec == Init /\ [][Next]_vars

\* Flou::try_from on the documents of ResolveDocs.
InitResolve ==
    /\ document \in ResolveDocs
    /\ pc = "grid_from"
    /\ grid = EmptyMap
    /\ definitions = EmptyMap
    /\ def_attrs_by_id = EmptyMap
    /\ def_connection_desc_map = EmptyMap
    /\ def_attrs = EmptyMap
    /\ def_connections = EmptyMap
    /\ grid_attrs = EmptyMap
    /\ grid_conn_desc_map = EmptyMap
    /\ grid_connections = EmptyMap
    /\ node_attributes = EmptyMap
    /\ connections = EmptyMap
    /\ labels = EmptyMap
    /\ result = Pending
    /\ start = Pos(0, 0)
    /\ step = Pos(0, 0)
    /\ current = Pos(0, 0)
    /\ walk_result = None
    /\ walk_end = <<>>
    /\ NoCall

SpecResolve == InitResolve /\ [][Next]_vars

\* Flou::try_from on the documents of OrderDocs.
InitOrder ==
    /\ document \in OrderDocs
    /\ pc = "grid_from"
    /\ grid = EmptyMap
    /\ definitions = EmptyMap
    /\ def_attrs_by_id = EmptyMap
    /\ def_connection_desc_map = EmptyMap
    /\ def_attrs = EmptyMap
    /\ def_connections = EmptyMap
    /\ grid_attrs = EmptyMap
    /\ grid_conn_desc_map = EmptyMap
    /\ grid_connections = EmptyMap
    /\ node_attributes = EmptyMap
    /\ connections = EmptyMap
    /\ labels = EmptyMap
    /\ result = Pending
    /\ start = Pos(0, 0)
    /\ step = Pos(0, 0)
    /\ current = Pos(0, 0)
    /\ walk_result = None
    /\ walk_end = <<>>
    /\ NoCall

SpecOrder == InitOrder /\ [][Next]_vars

\* Flou::try_from on the documents of ItselfDocs.
InitItself ==
    /\ document \in ItselfDocs
    /\ pc = "grid_from"
    /\ grid = EmptyMap
    /\ definitions = EmptyMap
    /\ def_attrs_by_id = EmptyMap
    /\ def_connection_desc_map = EmptyMap
    /\ def_attrs = EmptyMap
    /\ def_connections = EmptyMap
    /\ grid_attrs = EmptyMap
    /\ grid_conn_desc_map = EmptyMap
    /\ grid_connections = EmptyMap
    /\ node_attributes = EmptyMap
    /\ connections = EmptyMap
    /\ labels = EmptyMap
    /\ result = Pending
    /\ start = Pos(0, 0)
    /\ step = Pos(0, 0)
    /\ current = Pos(0, 0)
    /\ walk_result = None
    /\ walk_end = <<>>
    /\ NoCall

SpecItself == InitItself /\ [][Next]_vars

----------------------------------------------------------------------------
(* Grid::walk, one loop iteration per step.  The grids are those of WalkW   *)
(* by WalkH cells with at most MaxNodes nodes; walk starts at the padded    *)
(* position of a cell, as normalize_destination calls it.                   *)

WalkCells == {Pos(x, y) : x \in 0..(WalkW - 1), y \in 0..(WalkH - 1)}

WalkGrid(occupied) ==
    [y \in 1..WalkH |->
        [x \in 1..WalkW |-> IF Pos(x - 1, y - 1) \in occupied THEN Cell("foo", <<>>) ELSE None]]

WalkDocs ==
    {Doc(WalkGrid(occupied), <<>>) :
        occupied \in {o \in SUBSET WalkCells : Cardinality(o) <= MaxNodes}}

InitWalk ==
    /\ document \in WalkDocs
    /\ grid = GridFrom(document.grid)
    /\ \E from \in WalkCells : start = IndexToPadded(from)
    /\ \E dir \in Directions : step = DirVec(dir)
    /\ current = start
    /\ walk_result = None
    /\ walk_end = <<>>
    /\ pc = "walk"
    /\ NoCall
    /\ definitions = EmptyMap
    /\ def_attrs_by_id = EmptyMap
    /\ def_connection_desc_map = EmptyMap
    /\ def_attrs = EmptyMap
    /\ def_connections = EmptyMap
    /\ grid_attrs = EmptyMap
    /\ grid_conn_desc_map = EmptyMap
    /\ grid_connections = EmptyMap
    /\ node_attributes = EmptyMap
    /\ connections = EmptyMap
    /\ labels = EmptyMap
    /\ result = Pending

\* current += step; break match self.get_id(current) { ... }
WalkStep ==
    /\ pc = "walk"
    /\ LET next == PosAdd(current, step)
           found == get_id(grid, next)
       IN  /\ current' = next
           /\ IF found = None
              THEN walk_result' = None /\ pc' = "walk_done"
              ELSE IF IsSome(Unwrap(found))
              THEN walk_result' = Some(next) /\ pc' = "walk_done"
              ELSE UNCHANGED <<walk_result, pc>>
    /\ UNCHANGED <<document, grid, pipeline_vars, start, step, walk_end, path_vars>>

NextWalk == WalkStep

SpecWalk == InitWalk /\ [][NextWalk]_vars

----------------------------------------------------------------------------
(* get_path, called as render_connection calls it: on the grid of a built   *)
(* document, from a side of a node to a side of a node.  The grids are      *)
(* those of PathW by PathH cells with at most MaxPathNodes nodes.           *)

PathW == 3
PathH == 2
MaxPathNodes == 3

PathCells == {Pos(x, y) : x \in 0..(PathW - 1), y \in 0..(PathH - 1)}

PathGrid(occupied) ==
    [y \in 1..PathH |->
        [x \in 1..PathW |-> IF Pos(x - 1, y - 1) \in occupied THEN Cell("foo", <<>>) ELSE None]]

InitPath ==
    /\ \E occupied \in {o \in SUBSET PathCells : o # {} /\ Cardinality(o) <= MaxPathNodes} :
          /\ document = Doc(PathGrid(occupied), <<>>)
          /\ \E a \in occupied, b \in occupied, sa \in Directions, sb \in Directions :
                /\ path_from = PosSide(a, sa)
                /\ path_to = PosSide(b, sb)
    /\ grid = GridFrom(document.grid)
    /\ ties_swapped \in BOOLEAN
    /\ path = NoPath
    /\ pc = "path"
    /\ definitions = EmptyMap
    /\ def_attrs_by_id = EmptyMap
    /\ def_connection_desc_map = EmptyMap
    /\ def_attrs = EmptyMap
    /\ def_connections = EmptyMap
    /\ grid_attrs = EmptyMap
    /\ grid_conn_desc_map = EmptyMap
    /\ grid_connections = EmptyMap
    /\ node_attributes = EmptyMap
    /\ connections = EmptyMap
    /\ labels = EmptyMap
    /\ result = Pending
    /\ start = Pos(0, 0)
    /\ step = Pos(0, 0)
    /\ current = Pos(0, 0)
    /\ walk_result = None
    /\ walk_end = <<>>

\* let path = get_path(&flou.grid, connection.from, connection.to);
GetPath ==
    /\ pc = "path"
    /\ path' = get_path(grid, path_from, path_to, ties_swapped)
    /\ pc' = "path_done"
    /\ UNCHANGED <<document, grid, pipeline_vars, walk_vars, path_from, path_to, ties_swapped>>

NextPath == GetPath

SpecPath == InitPath /\ [][NextPath]_vars

----------------------------------------------------------------------------
(* The loops of Grid::walk and Grid::padded_walk, one iteration per step,   *)
(* from every start position up to LoopMargin steps outside the padded      *)
(* bounds of a grid of LoopW by LoopH cells with at most MaxLoopNodes       *)
(* nodes, in every direction.                                               *)

LoopW == 2
LoopH == 1
MaxLoopNodes == 1
LoopMargin == 1

LoopCells == {Pos(x, y) : x \in 0..(LoopW - 1), y \in 0..(LoopH - 1)}

LoopGrid(occupied) ==
    [y \in 1..LoopH |->
        [x \in 1..LoopW |-> IF Pos(x - 1, y - 1) \in occupied THEN Cell("foo", <<>>) ELSE None]]

LoopStarts ==
    {Pos(x, y) : x \in (0 - LoopMargin)..(2 * LoopW + LoopMargin),
                 y \in (0 - LoopMargin)..(2 * LoopH + LoopMargin)}

\* The end positions tried from a start: none, one behind the start, and the
\* first positions ahead of it.
LoopEnds(from, by) ==
    {None, Some(Pos(from.x - by.x, from.y - by.y))}
    \cup {Some(Pos(from.x + k * by.x, from.y + k * by.y)) : k \in 1..(LoopMargin + 1)}

InitLoops ==
    /\ \E occupied \in {o \in SUBSET LoopCells : Cardinality(o) <= MaxLoopNodes} :
          document = Doc(LoopGrid(occupied), <<>>)
    /\ grid = GridFrom(document.grid)
    /\ start \in LoopStarts
    /\ \E dir \in Directions : step = DirVec(dir)
    /\ current = start
    /\ walk_result = None
    /\ \/ pc = "walk" /\ walk_end = None
       \/ pc = "padded_walk" /\ walk_end \in LoopEnds(start, step)
    /\ NoCall
    /\ definitions = EmptyMap
    /\ def_attrs_by_id = EmptyMap
    /\ def_connection_desc_map = EmptyMap
    /\ def_attrs = EmptyMap
    /\ def_connections = EmptyMap
    /\ grid_attrs = EmptyMap
    /\ grid_conn_desc_map = EmptyMap
    /\ grid_connections = EmptyMap
    /\ node_attributes = EmptyMap
    /\ connections = EmptyMap
    /\ labels = EmptyMap
    /\ result = Pending

\* The value padded_walk leaves its loop with at a position, if it does:
\* None when it goes on.
PaddedWalkBreak(g, at, end) ==
    LET found == padded_get_id(g, at)
    IN  IF IsSome(end) /\ at = Unwrap(end)
        THEN Some(IF found = None THEN None
                  ELSE IF IsSome(Unwrap(found)) THEN Some(at)
                  ELSE None)
        ELSE IF found = None THEN Some(None)
        ELSE IF IsSome(Unwrap(found)) THEN Some(Some(at))
        ELSE None

\* padded_walk turning round at the bounds instead of stopping there.
PaddedWalkStepTurning ==
    /\ pc = "padded_walk"
    /\ current' = PosAdd(current, step)
    /\ IF padded_get_id(grid, PosAdd(current, step)) = None
       THEN /\ step' = Pos(0 - step.x, 0 - step.y)
            /\ UNCHANGED <<walk_result, pc>>
       ELSE /\ step' = step
            /\ IF IsSome(PaddedWalkBreak(grid, PosAdd(current, step), walk_end))
               THEN /\ walk_result' = Unwrap(PaddedWalkBreak(grid, PosAdd(current, step), walk_end))
                    /\ pc' = "padded_walk_done"
               ELSE UNCHANGED <<walk_result, pc>>
    /\ UNCHANGED <<document, grid, pipeline_vars, start, walk_end, path_vars>>

\* current += step; if let Some(end) = end { if current == end { return ... } }
\* break match self.padded_get_id(current) { ... }
PaddedWalkStep ==
    /\ pc = "padded_walk"
    /\ current' = PosAdd(current, step)
    /\ IF IsSome(PaddedWalkBreak(grid, PosAdd(current, step), walk_end))
       THEN /\ walk_result' = Unwrap(PaddedWalkBreak(grid, PosAdd(current, step), walk_end))
            /\ pc' = "padded_walk_done"
       ELSE UNCHANGED <<walk_result, pc>>
    /\ UNCHANGED <<document, grid, pipeline_vars, start, step, walk_end, path_vars>>

NextLoops == WalkStep \/ PaddedWalkStep

SpecLoops == InitLoops /\ [][NextLoops]_vars /\ WF_vars(NextLoops)

----------------------------------------------------------------------------
(* SvgRenderer::render_connection on a connection of a built diagram.       *)

InitRender ==
    /\ document \in RenderDocs
    /\ pc = "grid_from"
    /\ grid = EmptyMap
    /\ definitions = EmptyMap
    /\ def_attrs_by_id = EmptyMap
    /\ def_connection_desc_map = EmptyMap
    /\ def_attrs = EmptyMap
    /\ def_connections = EmptyMap
    /\ grid_attrs = EmptyMap
    /\ grid_conn_desc_map = EmptyMap
    /\ grid_connections = EmptyMap
    /\ node_attributes = EmptyMap
    /\ connections = EmptyMap
    /\ labels = EmptyMap
    /\ result = Pending
    /\ start = Pos(0, 0)
    /\ step = Pos(0, 0)
    /\ current = Pos(0, 0)
    /\ walk_result = None
    /\ walk_end = <<>>
    /\ NoCall

\* let path = get_path(&flou.grid, connection.from, connection.to);
\* for one connection of flou.connections.
RenderConnection ==
    /\ pc = "done"
    /\ result.kind = "Ok"
    /\ \E i \in DOMAIN result.connections : \E swapped \in BOOLEAN :
          /\ path_from' = PosSide(result.connections[i].from.pos, result.connections[i].from.side)
          /\ path_to' = PosSide(result.connections[i].to.pos, result.connections[i].to.side)
          /\ ties_swapped' = swapped
          /\ path' = get_path(grid, PosSide(result.connections[i].from.pos,
                                           result.connections[i].from.side),
                              PosSide(result.connections[i].to.pos,
                                      result.connections[i].to.side), swapped)
    /\ pc' = "path_done"
    /\ UNCHANGED <<document, grid, pipeline_vars, walk_vars>>

NextRender == Next \/ RenderConnection

SpecRender == InitRender /\ [][NextRender]_vars

----------------------------------------------------------------------------
(* What the claims speak of, read off the document itself                   *)

CellPositions ==
    UNION {{Pos(x - 1, y - 1) : x \in DOMAIN document.grid[y]} : y \in DOMAIN document.grid}

CellAt(p) == document.grid[p.y + 1][p.x + 1]

OccupiedPositions == {p \in CellPositions : IsSome(CellAt(p))}

IdAt(p) == Unwrap(CellAt(p)).id
AttrsAt(p) == Unwrap(CellAt(p)).attrs

UsedLabels ==
    {Unwrap(Unwrap(CellAt(p)).label) :
        p \in {q \in OccupiedPositions : IsSome(Unwrap(CellAt(q)).label)}}

LabelOccurrences(l) == {p \in OccupiedPositions : Unwrap(CellAt(p)).label = Some(l)}

DuplicatedLabels == {l \in UsedLabels : Cardinality(LabelOccurrences(l)) >= 2}

DefinitionIds == {document.definitions[i].id : i \in DOMAIN document.definitions}

DefinitionCount(id) ==
    Cardinality({i \in DOMAIN document.definitions : document.definitions[i].id = id})

RedefinedIds == {id \in DefinitionIds : DefinitionCount(id) >= 2}

\* The attribute list of the definition of id (of its first definition, should
\* there be several).
DefinitionOf(id) ==
    LET first == CHOOSE i \in DOMAIN document.definitions :
                    /\ document.definitions[i].id = id
                    /\ \A j \in 1..(i - 1) : document.definitions[j].id # id
    IN  document.definitions[first].attrs

NodeKinds == {"text", "class", "shape", "connect"}
ConnectionKinds == {"text", "class", "arrowheads"}

\* The kinds that occur two or more times in an attribute list.
DuplicatedKinds(attrs, kinds) ==
    {k \in kinds : Cardinality({i \in DOMAIN attrs : attrs[i].kind = k}) >= 2}

\* The value an attribute list gives a field, when it sets it once.
FieldOf(attrs, kind) ==
    IF \E i \in DOMAIN attrs : attrs[i].kind = kind
    THEN Some(attrs[CHOOSE i \in DOMAIN attrs : attrs[i].kind = kind].str)
    ELSE None

ConnectOf(attrs) ==
    IF \E i \in DOMAIN attrs : attrs[i].kind = "connect"
    THEN Some(attrs[CHOOSE i \in DOMAIN attrs : attrs[i].kind = "connect"].descs)
    ELSE None

ExpectedField(p, kind) ==
    IF IsSome(FieldOf(AttrsAt(p), kind)) THEN FieldOf(AttrsAt(p), kind)
    ELSE IF IdAt(p) \in DefinitionIds THEN FieldOf(DefinitionOf(IdAt(p)), kind)
    ELSE None

ExpectedConnect(p) ==
    IF IsSome(ConnectOf(AttrsAt(p))) THEN ConnectOf(AttrsAt(p))
    ELSE IF IdAt(p) \in DefinitionIds THEN ConnectOf(DefinitionOf(IdAt(p)))
    ELSE None

Abs(n) == IF n >= 0 THEN n ELSE -n

Distance(p, q) == Abs(p.x - q.x) + Abs(p.y - q.y)

\* The occupied cells strictly beyond p in a direction, on p's row or column.
BeyondCells(p, dir) ==
    {q \in OccupiedPositions :
        CASE dir = "North" -> q.x = p.x /\ q.y < p.y
          [] dir = "South" -> q.x = p.x /\ q.y > p.y
          [] dir = "West"  -> q.y = p.y /\ q.x < p.x
          [] dir = "East"  -> q.y = p.y /\ q.x > p.x}

NearestBeyond(p, dir) ==
    IF BeyondCells(p, dir) = {} THEN None
    ELSE Some(CHOOSE q \in BeyondCells(p, dir) :
                 \A r \in BeyondCells(p, dir) : Distance(p, q) <= Distance(p, r))

\* How far try_from has come.
Finished(kinds) == pc = "done" /\ result.kind \in kinds

DefinitionAttrsPassed ==
    \/ pc \in {"def_connections", "grid_attrs", "grid_connections", "overwrite", "labels", "resolve"}
    \/ Finished({"DuplicateConnectionAttributesInDefinitions", "DuplicateNodeAttributesInGrid",
                 "DuplicateConnectionAttributesInGrid", "DuplicateLabels",
                 "InvalidDestination", "Ok"})

DefinitionConnectionsPassed ==
    \/ pc \in {"grid_attrs", "grid_connections", "overwrite", "labels", "resolve"}
    \/ Finished({"DuplicateNodeAttributesInGrid", "DuplicateConnectionAttributesInGrid",
                 "DuplicateLabels", "InvalidDestination", "Ok"})

GridAttrsPassed ==
    \/ pc \in {"grid_connections", "overwrite", "labels", "resolve"}
    \/ Finished({"DuplicateConnectionAttributesInGrid", "DuplicateLabels",
                 "InvalidDestination", "Ok"})

GridConnectionsPassed ==
    \/ pc \in {"overwrite", "labels", "resolve"}
    \/ Finished({"DuplicateLabels", "InvalidDestination", "Ok"})

Merged ==
    \/ pc \in {"labels", "resolve"}
    \/ Finished({"DuplicateLabels", "InvalidDestination", "Ok"})

LabelsPassed == pc = "resolve" \/ Finished({"InvalidDestination", "Ok"})

----------------------------------------------------------------------------
(* The claims                                                               *)

\* C1: building the label table fails with DuplicateLabels iff some label
\* occurs at two or more positions; the error map then has exactly the labels
\* at two or more positions, each with all of its positions; when it succeeds
\* the table maps every label to its single position.
C1_LabelTable ==
    /\ Finished({"DuplicateLabels"}) =>
          /\ DuplicatedLabels # {}
          /\ DOMAIN result.err = DuplicatedLabels
          /\ \A l \in DuplicatedLabels : result.err[l] = LabelOccurrences(l)
    /\ LabelsPassed =>
          /\ DuplicatedLabels = {}
          /\ DOMAIN labels = UsedLabels
          /\ \A l \in UsedLabels : LabelOccurrences(l) = {labels[l]}

\* A label at three positions is reported next to a label at one position,
\* which is not.
C1_Witness ==
    /\ Finished({"DuplicateLabels"})
    /\ \E l \in UsedLabels : Cardinality(LabelOccurrences(l)) = 3
    /\ \E l \in UsedLabels : Cardinality(LabelOccurrences(l)) = 1

\* C2: the duplicate set of a definition or of an occupied cell is the set of
\* the kinds that occur two or more times in its attribute list, and the error
\* map has a key for exactly the owners whose set is not empty.
C2_DuplicateNodeAttributes ==
    LET bad_ids == {id \in DefinitionIds : DuplicatedKinds(DefinitionOf(id), NodeKinds) # {}}
        bad_cells == {p \in OccupiedPositions : DuplicatedKinds(AttrsAt(p), NodeKinds) # {}}
    IN  /\ Finished({"DuplicateNodeAttributesInDefinitions"}) =>
              /\ bad_ids # {}
              /\ DOMAIN result.err = bad_ids
              /\ \A id \in bad_ids : result.err[id] = DuplicatedKinds(DefinitionOf(id), NodeKinds)
        /\ DefinitionAttrsPassed => bad_ids = {}
        /\ Finished({"DuplicateNodeAttributesInGrid"}) =>
              /\ bad_cells # {}
              /\ DOMAIN result.err = bad_cells
              /\ \A p \in bad_cells : result.err[p] = DuplicatedKinds(AttrsAt(p), NodeKinds)
        /\ GridAttrsPassed => bad_cells = {}

\* Two definitions offend, one of them in two kinds.
C2_Witness ==
    /\ Finished({"DuplicateNodeAttributesInDefinitions"})
    /\ Cardinality(DOMAIN result.err) = 2
    /\ \E id \in DOMAIN result.err : Cardinality(result.err[id]) = 2

\* C3: the error map of duplicate connection attributes has an entry
\* (owner, i) for exactly the descriptors i (0-based, within the owner's connect
\* list) in which some attribute kind occurs two or more times.
C3_ConnectionErrorKeys ==
    LET has_entry(owner, n) == owner \in DOMAIN result.err /\ n \in DOMAIN result.err[owner]
        duplicated(desc) == DuplicatedKinds(desc.attrs, ConnectionKinds) # {}
        descs_of(attrs) == IF IsSome(ConnectOf(attrs)) THEN Unwrap(ConnectOf(attrs)) ELSE <<>>
    IN  /\ Finished({"DuplicateConnectionAttributesInDefinitions"}) =>
              \A id \in DefinitionIds : \A i \in DOMAIN descs_of(DefinitionOf(id)) :
                  has_entry(id, i - 1) <=> duplicated(descs_of(DefinitionOf(id))[i])
        /\ DefinitionConnectionsPassed =>
              \A id \in DefinitionIds : \A i \in DOMAIN descs_of(DefinitionOf(id)) :
                  ~duplicated(descs_of(DefinitionOf(id))[i])
        /\ Finished({"DuplicateConnectionAttributesInGrid"}) =>
              \A p \in OccupiedPositions : \A i \in DOMAIN descs_of(AttrsAt(p)) :
                  has_entry(p, i - 1) <=> duplicated(descs_of(AttrsAt(p))[i])
        /\ GridConnectionsPassed =>
              \A p \in OccupiedPositions : \A i \in DOMAIN descs_of(AttrsAt(p)) :
                  ~duplicated(descs_of(AttrsAt(p))[i])

\* C4: the duplicate set reported for a connection descriptor is the set of
\* the kinds among text, class and arrowheads that occur two or more times in
\* its attribute list, so a descriptor is reported only if that set is not
\* empty.
C4_ConnectionDuplicateSet ==
    LET descs_of(attrs) == IF IsSome(ConnectOf(attrs)) THEN Unwrap(ConnectOf(attrs)) ELSE <<>>
    IN  /\ Finished({"DuplicateConnectionAttributesInDefinitions"}) =>
              \A id \in DOMAIN result.err : \A n \in DOMAIN result.err[id] :
                  /\ result.err[id][n] # {}
                  /\ result.err[id][n] =
                        DuplicatedKinds(descs_of(DefinitionOf(id))[n + 1].attrs, ConnectionKinds)
        /\ Finished({"DuplicateConnectionAttributesInGrid"}) =>
              \A p \in DOMAIN result.err : \A n \in DOMAIN result.err[p] :
                  /\ result.err[p][n] # {}
                  /\ result.err[p][n] =
                        DuplicatedKinds(descs_of(AttrsAt(p))[n + 1].attrs, ConnectionKinds)

RECURSIVE Reverse(_)
Reverse(s) == IF s = <<>> THEN <<>> ELSE Reverse(Tail(s)) \o <<Head(s)>>

\* C5: the pipeline fails with DuplicateDefinitions iff some identifier has two
\* or more definitions, and reports exactly the identifiers that have; the
\* definitions in the opposite order give the same report.
C5_DuplicateDefinitions ==
    /\ Finished({"DuplicateDefinitions"}) =>
          /\ RedefinedIds # {}
          /\ result.err = RedefinedIds
          /\ ensure_definitions_are_unique(Reverse(document.definitions)) = Err(result.err)
    /\ (pc \notin {"grid_from", "ensure_unique"} /\ ~Finished({"DuplicateDefinitions"})) =>
          /\ RedefinedIds = {}
          /\ ensure_definitions_are_unique(Reverse(document.definitions)).ok

\* An identifier defined three times is reported once, next to an identifier
\* defined once, which is not.
C5_Witness ==
    /\ Finished({"DuplicateDefinitions"})
    /\ \E id \in DefinitionIds : DefinitionCount(id) = 3 /\ id \in result.err
    /\ \E id \in DefinitionIds : DefinitionCount(id) = 1 /\ id \notin result.err

\* C6: after the merge every occupied position has, in each of text, class and
\* shape, the value of its grid occurrence when that sets the field, and the
\* value of the definition of its identifier otherwise.
C6_FieldLevelMerge ==
    Merged =>
        /\ DOMAIN node_attributes = OccupiedPositions
        /\ \A p \in OccupiedPositions :
              node_attributes[p] = [text  |-> ExpectedField(p, "text"),
                                    class |-> ExpectedField(p, "class"),
                                    shape |-> ExpectedField(p, "shape")]
        /\ Finished({"Ok"}) => result.node_attributes = node_attributes

\* Definition text A, grid class B and no grid text: text A, class B.
C6_Witness ==
    /\ pc = "labels"
    /\ \E p \in OccupiedPositions :
          /\ FieldOf(AttrsAt(p), "text") = None
          /\ FieldOf(AttrsAt(p), "class") = Some("B")
          /\ IdAt(p) \in DefinitionIds
          /\ FieldOf(DefinitionOf(IdAt(p)), "text") = Some("A")
          /\ FieldOf(DefinitionOf(IdAt(p)), "class") = Some("D")
          /\ node_attributes[p].text = Some("A")
          /\ node_attributes[p].class = Some("B")

\* C7: the merged connection list of an occupied position is the connect list
\* of its grid occurrence whenever that has a connect attribute, and the
\* connect list of the definition otherwise.
C7_ConnectReplaced ==
    Merged =>
        /\ DOMAIN connections = {p \in OccupiedPositions : IsSome(ExpectedConnect(p))}
        /\ \A p \in DOMAIN connections :
              LET descs == Unwrap(ExpectedConnect(p))
              IN  /\ Len(connections[p]) = Len(descs)
                  /\ \A i \in DOMAIN descs :
                        /\ connections[p][i].to = descs[i].to
                        /\ connections[p][i].sides = descs[i].sides

\* A cell with a connect list of one descriptor, whose definition has two.
C7_Witness ==
    /\ pc = "labels"
    /\ \E p \in OccupiedPositions :
          /\ IsSome(ConnectOf(AttrsAt(p)))
          /\ Len(Unwrap(ConnectOf(AttrsAt(p)))) = 1
          /\ IdAt(p) \in DefinitionIds
          /\ IsSome(ConnectOf(DefinitionOf(IdAt(p))))
          /\ Len(Unwrap(ConnectOf(DefinitionOf(IdAt(p))))) = 2
          /\ Len(connections[p]) = 1

ConnsFrom(p) == SelectSeq(result.connections, LAMBDA c : c.from.pos = p)

\* The cell a destination names from p, if any, and the cause reported if none.
TargetOf(p, to) ==
    CASE to.tag = "Relative" -> NearestBeyond(p, to.dir)
      [] to.tag = "Label" ->
            IF Cardinality(LabelOccurrences(to.label)) = 1
            THEN Some(CHOOSE q \in LabelOccurrences(to.label) : TRUE)
            ELSE None

CauseOf(to) ==
    CASE to.tag = "Relative" -> InvalidDirection(to.dir)
      [] to.tag = "Label" -> UnknownLabel(to.label)

DescsOf(attrs) == IF IsSome(ConnectOf(attrs)) THEN Unwrap(ConnectOf(attrs)) ELSE <<>>

\* C8: every cell that uses the identifier of a definition and has no connect
\* attribute of its own gets the fields and the connections of the definition:
\* one connection per descriptor, in order, from the cell, to the cell its
\* destination names from that cell (given by its padded position), or the
\* cause under (cell, index) when it names none.
C8_DefinitionFansOut ==
    Finished({"Ok", "InvalidDestination"}) =>
        \A p \in OccupiedPositions :
            (ConnectOf(AttrsAt(p)) = None /\ IdAt(p) \in DefinitionIds) =>
                LET attrs == DefinitionOf(IdAt(p))
                    descs == DescsOf(attrs)
                IN  /\ \A k \in {"text", "class", "shape"} :
                          FieldOf(AttrsAt(p), k) = None => node_attributes[p][k] = FieldOf(attrs, k)
                    /\ Finished({"Ok"}) => Len(ConnsFrom(p)) = Len(descs)
                    /\ \A i \in DOMAIN descs :
                          LET target == TargetOf(p, descs[i].to)
                          IN  IF IsSome(target)
                              THEN /\ Finished({"Ok"}) =>
                                         /\ ConnsFrom(p)[i].from = [pos |-> p, side |-> descs[i].sides[1]]
                                         /\ ConnsFrom(p)[i].to = [pos |-> IndexToPadded(Unwrap(target)),
                                                                  side |-> descs[i].sides[2]]
                                   /\ Finished({"InvalidDestination"}) =>
                                         ~(p \in DOMAIN result.err /\ (i - 1) \in DOMAIN result.err[p])
                              ELSE /\ Finished({"InvalidDestination"})
                                   /\ p \in DOMAIN result.err
                                   /\ (i - 1) \in DOMAIN result.err[p]
                                   /\ result.err[p][i - 1] = CauseOf(descs[i].to)

\* Two cells share an identifier and a definition, and their first
\* connections lead to different cells.
C8_Witness ==
    /\ Finished({"Ok"})
    /\ \E p1 \in OccupiedPositions : \E p2 \in OccupiedPositions \ {p1} :
          /\ IdAt(p1) = IdAt(p2)
          /\ IdAt(p1) \in DefinitionIds
          /\ ConnectOf(AttrsAt(p1)) = None
          /\ ConnectOf(AttrsAt(p2)) = None
          /\ Len(DescsOf(DefinitionOf(IdAt(p1)))) >= 1
          /\ ConnsFrom(p1)[1].to.pos # ConnsFrom(p2)[1].to.pos

WellFormed(attrs) ==
    /\ DuplicatedKinds(attrs, NodeKinds) = {}
    /\ \A i \in DOMAIN DescsOf(attrs) : DuplicatedKinds(DescsOf(attrs)[i].attrs, ConnectionKinds) = {}

\* C9: a well-formed definition of an identifier that no cell uses is never
\* named by an error, and adds no node attributes, no connection and no
\* unresolved destination to the outcome.
C9_UnusedDefinitionIsSilent ==
    pc = "done" =>
        \A id \in DefinitionIds :
            (/\ DefinitionCount(id) = 1
             /\ id \notin {IdAt(p) : p \in OccupiedPositions}
             /\ WellFormed(DefinitionOf(id))) =>
                /\ Finished({"DuplicateNodeAttributesInDefinitions",
                             "DuplicateConnectionAttributesInDefinitions"}) =>
                      id \notin DOMAIN result.err
                /\ Finished({"InvalidDestination"}) =>
                      \A p \in DOMAIN result.err :
                          /\ p \in OccupiedPositions
                          /\ IsSome(ExpectedConnect(p))
                          /\ \A n \in DOMAIN result.err[p] :
                                /\ (n + 1) \in DOMAIN Unwrap(ExpectedConnect(p))
                                /\ result.err[p][n] = CauseOf(Unwrap(ExpectedConnect(p))[n + 1].to)
                /\ Finished({"Ok"}) =>
                      /\ DOMAIN result.node_attributes = OccupiedPositions
                      /\ \A i \in DOMAIN result.connections :
                            result.connections[i].from.pos \in OccupiedPositions
                      /\ \A p \in OccupiedPositions :
                            Len(ConnsFrom(p)) = IF IsSome(ExpectedConnect(p))
                                                THEN Len(Unwrap(ExpectedConnect(p))) ELSE 0

\* C10: from the cell walk starts at, walk returns the nearest occupied cell
\* strictly beyond it in the direction of the step (as a padded position), and
\* None iff there is none before the bounds; the function walk used by
\* normalize_destination returns the same.
C10_WalkFindsNearest ==
    pc = "walk_done" =>
        LET dir == CHOOSE d \in Directions : DirVec(d) = step
            nearest == NearestBeyond(PaddedToIndex(start), dir)
        IN  /\ walk_result = IF IsSome(nearest) THEN Some(IndexToPadded(Unwrap(nearest))) ELSE None
            /\ walk_result = walk(grid, start, step)

\* The row [node, empty, empty, node]: East from column 0 gives column 3.
C10_Witness ==
    /\ pc = "walk_done"
    /\ start = IndexToPadded(Pos(0, 0))
    /\ step = DirVec("East")
    /\ OccupiedPositions \cap {Pos(x, 0) : x \in 0..3} = {Pos(0, 0), Pos(3, 0)}
    /\ IsSome(walk_result)
    /\ PaddedToIndex(Unwrap(walk_result)) = Pos(3, 0)

\* The merged connect list of a cell, and whether the outcome reports its
\* i-th descriptor (1-based here, 0-based in the error map).
MergedDescs(p) == IF IsSome(ExpectedConnect(p)) THEN Unwrap(ExpectedConnect(p)) ELSE <<>>

Reported(p, i) ==
    /\ Finished({"InvalidDestination"})
    /\ p \in DOMAIN result.err
    /\ (i - 1) \in DOMAIN result.err[p]

\* C11: a destination Relative(dir) of a connection of cell p resolves to the
\* nearest occupied cell beyond p in direction dir (held as its padded
\* position) and is reported as InvalidDirection(dir) when there is none; a
\* destination Label(name) resolves to the position the label table gives for
\* name and is reported as UnknownLabel(name) when the table has no such label.
C11_DestinationResolves ==
    Finished({"Ok", "InvalidDestination"}) =>
        \A p \in OccupiedPositions : \A i \in DOMAIN MergedDescs(p) :
            LET to == MergedDescs(p)[i].to
                found == NearestBeyond(p, to.dir)
            IN  /\ to.tag = "Relative" =>
                      IF IsSome(found)
                      THEN /\ ~Reported(p, i)
                           /\ Finished({"Ok"}) =>
                                 ConnsFrom(p)[i].to.pos = IndexToPadded(Unwrap(found))
                      ELSE /\ Reported(p, i)
                           /\ result.err[p][i - 1] = InvalidDirection(to.dir)
                /\ to.tag = "Label" =>
                      IF to.label \in DOMAIN labels
                      THEN /\ ~Reported(p, i)
                           /\ Finished({"Ok"}) =>
                                 ConnsFrom(p)[i].to.pos = IndexToPadded(labels[to.label])
                      ELSE /\ Reported(p, i)
                           /\ result.err[p][i - 1] = UnknownLabel(to.label)

\* A cell whose two connections resolve, one by a direction and one by a
\* label, to two different cells.
C11_Witness ==
    /\ Finished({"Ok"})
    /\ \E p \in OccupiedPositions :
          /\ Len(MergedDescs(p)) = 2
          /\ MergedDescs(p)[1].to.tag = "Relative"
          /\ MergedDescs(p)[2].to.tag = "Label"
          /\ ConnsFrom(p)[1].to.pos # ConnsFrom(p)[2].to.pos
          /\ PaddedToIndex(ConnsFrom(p)[2].to.pos) \in LabelOccurrences(MergedDescs(p)[2].to.label)

\* C12: a connection whose destination is Itself is never reported and,
\* when the document is built, leads to its own origin cell, whatever its
\* sides and the rest of the grid.
C12_ItselfResolves ==
    pc = "done" =>
        \A p \in OccupiedPositions : \A i \in DOMAIN MergedDescs(p) :
            MergedDescs(p)[i].to.tag = "Itself" =>
                /\ Finished({"Ok", "InvalidDestination"})
                /\ ~Reported(p, i)
                /\ Finished({"Ok"}) =>
                      /\ ConnsFrom(p)[i].from.pos = p
                      /\ ConnsFrom(p)[i].to.pos = IndexToPadded(p)

\* The connections of the merged document that name no cell.
FailingConnections ==
    UNION {{<<p, i>> : i \in {j \in DOMAIN MergedDescs(p) :
                                  TargetOf(p, MergedDescs(p)[j].to) = None}} :
              p \in OccupiedPositions}

ReportedConnections ==
    UNION {{<<p, n + 1>> : n \in DOMAIN result.err[p]} : p \in DOMAIN result.err}

\* C13: destination resolution returns Ok iff every merged connection of
\* every cell names a cell, with one connection per descriptor; otherwise it
\* returns InvalidDestination with an entry (cell, index) -> cause for exactly
\* the connections that name none, whichever cell they belong to.
C13_AllFailuresReported ==
    Finished({"Ok", "InvalidDestination"}) =>
        /\ Finished({"Ok"}) <=> FailingConnections = {}
        /\ Finished({"Ok"}) =>
              \A p \in OccupiedPositions : Len(ConnsFrom(p)) = Len(MergedDescs(p))
        /\ Finished({"InvalidDestination"}) =>
              /\ ReportedConnections = FailingConnections
              /\ \A e \in FailingConnections :
                    result.err[e[1]][e[2] - 1] = CauseOf(MergedDescs(e[1])[e[2]].to)

\* tests::invalid_destination: two cells are reported, one of them with two
\* connections, and a third cell's connections resolve.
C13_Witness ==
    /\ Finished({"InvalidDestination"})
    /\ Cardinality(DOMAIN result.err) = 2
    /\ \E p \in DOMAIN result.err : Cardinality(DOMAIN result.err[p]) = 2
    /\ \E p \in OccupiedPositions \ DOMAIN result.err : Len(MergedDescs(p)) = 2

\* C14: a document with a label at two or more positions and a connection
\* that names no cell never reaches destination resolution and never ends
\* with InvalidDestination (nor built): it ends with DuplicateLabels unless an
\* earlier statement of try_from rejected it.
C14_LabelsBeforeDestinations ==
    (DuplicatedLabels # {} /\ FailingConnections # {}) =>
        /\ pc # "resolve"
        /\ ~Finished({"InvalidDestination", "Ok"})
        /\ (pc = "done" /\ Merged) => Finished({"DuplicateLabels"})

\* A document rejected with DuplicateLabels that has a connection in a
\* direction with no cell.
C14_Witness ==
    /\ Finished({"DuplicateLabels"})
    /\ \E e \in FailingConnections : MergedDescs(e[1])[e[2]].to.tag = "Relative"

\* What the claims about the router speak of.
Routed == pc = "path_done"

FromCell == IndexToPadded(path_from.origin)
ToCell == IndexToPadded(path_to.origin)

OccupiedPadded == {IndexToPadded(p) : p \in OccupiedPositions}

\* C15: get_path returns at least two waypoints, the first the padded
\* position of from's cell and the last that of to's cell; a list of more than
\* two has from's link point second and to's link point second to last.
C15_PathEndpoints ==
    Routed =>
        /\ Len(path) >= 2
        /\ path[1] = FromCell
        /\ path[Len(path)] = ToCell
        /\ Len(path) > 2 =>
              /\ path[2] = PosAdd(FromCell, DirVec(path_from.side))
              /\ path[Len(path) - 1] = PosAdd(ToCell, DirVec(path_to.side))

\* A path between two different cells, around a nudged corner: two waypoints
\* between link points that share no row or column.
C15_Witness ==
    /\ Routed
    /\ path_from.origin # path_to.origin
    /\ straight_line(path[2], path[Len(path) - 1]) = None
    /\ Len(path) = 6

\* C16: no waypoint of a path between two occupied cells, other than the
\* positions of the two cells themselves, is the padded position of an
\* occupied cell.
C16_WaypointsAvoidNodes ==
    Routed =>
        \A i \in DOMAIN path : path[i] \in OccupiedPadded => path[i] \in {FromCell, ToCell}

\* The cells strictly between two cells of one row.
CellsBetween(a, b) == {q \in OccupiedPositions : q.y = a.y /\ a.x < q.x /\ q.x < b.x}

StraightAcrossRow ==
    /\ path_from.origin.y = path_to.origin.y
    /\ path_from.origin.x < path_to.origin.x
    /\ path_from.side = "East"
    /\ path_to.side = "West"
    /\ CellsBetween(path_from.origin, path_to.origin) = {}

\* C17: from the East side of a cell to the West side of a cell further east
\* in its row, with no occupied cell between them, every waypoint is one of
\* the two cell positions and the two link points.
C17_StraightLineShortcut ==
    (Routed /\ StraightAcrossRow) =>
        /\ \A i \in DOMAIN path :
              path[i] \in {FromCell, ToCell,
                           PosAdd(FromCell, DirVec("East")), PosAdd(ToCell, DirVec("West"))}
        /\ Len(path) <= 4

\* Two nodes with an empty cell between them and a node below it.
C17_Witness ==
    /\ Routed
    /\ StraightAcrossRow
    /\ path_to.origin.x = path_from.origin.x + 2
    /\ OccupiedPositions # {path_from.origin, path_to.origin}
    /\ path = <<FromCell, PosAdd(FromCell, DirVec("East")),
                PosAdd(ToCell, DirVec("West")), ToCell>>

\* The padded positions on the segment between two waypoints of one row or
\* column (on their bounding box otherwise).
Segment(a, b) ==
    {Pos(x, y) : x \in (IF a.x <= b.x THEN a.x..b.x ELSE b.x..a.x),
                 y \in (IF a.y <= b.y THEN a.y..b.y ELSE b.y..a.y)}

\* C19: no segment between consecutive waypoints of a path passes over the
\* padded position of an occupied cell other than the from and to cells.
C19_SegmentsAvoidNodes ==
    Routed =>
        \A i \in 1..(Len(path) - 1) :
            Segment(path[i], path[i + 1]) \cap OccupiedPadded \subseteq {FromCell, ToCell}

\* The two L-shaped corner candidates, and the one with more free axes.
CornerCandidates ==
    <<Pos(LinkPoint(path_from).x, LinkPoint(path_to).y),
      Pos(LinkPoint(path_to).x, LinkPoint(path_from).y)>>

CandidatesDiffer ==
    /\ LinkPoint(path_from).x # LinkPoint(path_to).x
    /\ LinkPoint(path_from).y # LinkPoint(path_to).y
    /\ from_pos(CornerCandidates[1]).count # from_pos(CornerCandidates[2]).count

FreerCandidate ==
    IF from_pos(CornerCandidates[1]).count > from_pos(CornerCandidates[2]).count
    THEN CornerCandidates[1] ELSE CornerCandidates[2]

CellCandidate ==
    IF from_pos(CornerCandidates[1]).count > from_pos(CornerCandidates[2]).count
    THEN CornerCandidates[2] ELSE CornerCandidates[1]

LegClear(p, corner) ==
    (Segment(p, corner) \ {corner}) \cap OccupiedPadded = {}

C20_FallsBackToFreer ==
    /\ Routed
    /\ CandidatesDiffer
    /\ path[3] = FreerCandidate

\* Both corner candidates have exactly one free axis.
BothOneFreeAxis ==
    /\ LinkPoint(path_from).x # LinkPoint(path_to).x
    /\ LinkPoint(path_from).y # LinkPoint(path_to).y
    /\ from_pos(CornerCandidates[1]).count = 1
    /\ from_pos(CornerCandidates[2]).count = 1

\* The corner candidates both of whose legs are clear of occupied cells.
ClearCandidates ==
    {c \in {CornerCandidates[1], CornerCandidates[2]} :
        /\ LegClear(LinkPoint(path_from), c)
        /\ LegClear(LinkPoint(path_to), c)}

\* The waypoints of the path between the two link points.
MidWaypoints == SubSeq(path, 3, Len(path) - 2)

\* C21: when both corner candidates have exactly one free axis, a candidate
\* with both legs unobstructed, if there is one, is the only corner waypoint
\* of the path (5 waypoints); if there is none, the path holds no candidate
\* but a neighbour of one (the nudged corner) and has 6 or 7 waypoints.
C21_TieTakesClearCandidate ==
    (Routed /\ BothOneFreeAxis) =>
        IF ClearCandidates # {}
        THEN \E c \in ClearCandidates :
                path = <<FromCell, LinkPoint(path_from), c, LinkPoint(path_to), ToCell>>
        ELSE /\ Len(path) \in {6, 7}
             /\ \A i \in DOMAIN MidWaypoints :
                    MidWaypoints[i] \notin {CornerCandidates[1], CornerCandidates[2]}
             /\ \E i \in DOMAIN MidWaypoints :
                    \E c \in {CornerCandidates[1], CornerCandidates[2]} :
                        taxicab(MidWaypoints[i], c) = 1

\* C21 witness: a routed connection between two different nodes, both
\* candidates with one free axis, exactly one of them with both legs clear.
C21_Witness ==
    /\ Routed
    /\ BothOneFreeAxis
    /\ FromCell # ToCell
    /\ Cardinality(ClearCandidates) = 1
    /\ Len(path) = 5

\* A routed connection with both candidates blocked takes a nudged corner.
C21_NudgedWitness ==
    /\ Routed
    /\ BothOneFreeAxis
    /\ ClearCandidates = {}
    /\ Len(path) > 5

\* The corner get_best_corner returns for the routed connection.
ChosenCorner == get_best_corner(grid, path_from, path_to, ties_swapped)

\* The corner is nudged: the link points differ, share no row or column, and
\* the chosen corner has one free axis.
CornerIsNudged ==
    /\ LinkPoint(path_from).x # LinkPoint(path_to).x
    /\ LinkPoint(path_from).y # LinkPoint(path_to).y
    /\ ChosenCorner.lane_count.count = 1

\* The two neighbours of a position with one free axis along that axis.
LaneNeighbours(p) ==
    IF from_pos(p).axis = "X" THEN {Pos(p.x - 1, p.y), Pos(p.x + 1, p.y)}
    ELSE {Pos(p.x, p.y - 1), Pos(p.x, p.y + 1)}

\* The sum of the taxicab distances of a position to the two link points.
DistanceToLinkPoints(p) ==
    (IF p.x > LinkPoint(path_from).x THEN p.x - LinkPoint(path_from).x ELSE LinkPoint(path_from).x - p.x)
    + (IF p.y > LinkPoint(path_from).y THEN p.y - LinkPoint(path_from).y ELSE LinkPoint(path_from).y - p.y)
    + (IF p.x > LinkPoint(path_to).x THEN p.x - LinkPoint(path_to).x ELSE LinkPoint(path_to).x - p.x)
    + (IF p.y > LinkPoint(path_to).y THEN p.y - LinkPoint(path_to).y ELSE LinkPoint(path_to).y - p.y)

\* Two different positions on a common row or column.
OnCommonLine(p, q) == p # q /\ (p.x = q.x \/ p.y = q.y)

\* C22: when the chosen corner has one free axis, the path turns at the
\* neighbour of the corner along the free axis that is nearer (in summed
\* taxicab distance) to the two link points; both neighbours are pure lane
\* intersections; each link point not on a common row or column with the
\* nudged corner is followed (from) or preceded (to) by the link point
\* shifted by the nudge; there are exactly two waypoints between the link
\* points.
C22_NudgedCorner ==
    (Routed /\ CornerIsNudged) =>
        /\ \A n \in LaneNeighbours(ChosenCorner.pos) : from_pos(n).count = 2
        /\ \E n \in LaneNeighbours(ChosenCorner.pos) :
              LET nudge == Pos(n.x - ChosenCorner.pos.x, n.y - ChosenCorner.pos.y)
              IN  /\ \A m \in LaneNeighbours(ChosenCorner.pos) :
                        DistanceToLinkPoints(n) <= DistanceToLinkPoints(m)
                  /\ MidWaypoints =
                        (IF OnCommonLine(LinkPoint(path_from), n) THEN <<>>
                         ELSE <<PosAdd(LinkPoint(path_from), nudge)>>)
                        \o <<n>>
                        \o (IF OnCommonLine(LinkPoint(path_to), n) THEN <<>>
                            ELSE <<PosAdd(LinkPoint(path_to), nudge)>>)
        /\ Len(MidWaypoints) = 2

\* C22 witness: a routed connection between two different nodes whose chosen
\* corner has one free axis.
C22_Witness ==
    /\ Routed
    /\ CornerIsNudged
    /\ FromCell # ToCell
    /\ Len(path) = 6

\* The two cells are neighbours and the sides are the ones facing each other.
FacingSides ==
    \E d \in Directions :
        /\ path_from.side = d
        /\ path_to.origin = PosAdd(path_from.origin, DirVec(d))
        /\ DirVec(path_to.side) = Pos(0 - DirVec(d).x, 0 - DirVec(d).y)

\* C23: the link points of from and to coincide exactly when from and to are
\* the same side of the same cell or the facing sides of two adjacent cells,
\* and the path is then the two cell positions alone.
C23_CoincidingLinkPoints ==
    Routed =>
        /\ (LinkPoint(path_from) = LinkPoint(path_to)) <=> (path_from = path_to \/ FacingSides)
        /\ (LinkPoint(path_from) = LinkPoint(path_to)) => path = <<FromCell, ToCell>>

\* C23 witness: a routed connection between the facing sides of two adjacent
\* nodes.
C23_Witness ==
    /\ Routed
    /\ FacingSides
    /\ LinkPoint(path_from) = LinkPoint(path_to)
    /\ path = <<FromCell, ToCell>>

\* C24: in a built diagram the connections of one origin cell are, in the
\* order of the connection list, the descriptors of the cell's merged
\* connect list in their order (same sides, the cell each one names); in an
\* InvalidDestination error the entry n of a cell is the cause of the cell's
\* descriptor number n, counted from 0.  Both hold for every order in which
\* the origin cells are visited.
C24_ListOrderKept ==
    /\ Finished({"Ok"}) =>
          \A p \in OccupiedPositions :
              /\ Len(ConnsFrom(p)) = Len(MergedDescs(p))
              /\ \A i \in DOMAIN MergedDescs(p) :
                    /\ ConnsFrom(p)[i].from.side = MergedDescs(p)[i].sides[1]
                    /\ ConnsFrom(p)[i].to.side = MergedDescs(p)[i].sides[2]
                    /\ IsSome(TargetOf(p, MergedDescs(p)[i].to))
                    /\ ConnsFrom(p)[i].to.pos =
                          IndexToPadded(Unwrap(TargetOf(p, MergedDescs(p)[i].to)))
    /\ Finished({"InvalidDestination"}) =>
          \A p \in DOMAIN result.err : \A n \in DOMAIN result.err[p] :
              /\ (n + 1) \in DOMAIN MergedDescs(p)
              /\ TargetOf(p, MergedDescs(p)[n + 1].to) = None
              /\ result.err[p][n] = CauseOf(MergedDescs(p)[n + 1].to)

\* C24 witness: a built diagram with connections from two cells, one of them
\* with two connections that lead to two different cells.
C24_Witness ==
    /\ Finished({"Ok"})
    /\ \E p, q \in OccupiedPositions :
          /\ p # q
          /\ Len(ConnsFrom(p)) = 2
          /\ ConnsFrom(p)[1].to.pos # ConnsFrom(p)[2].to.pos
          /\ Len(ConnsFrom(q)) >= 1

\* An InvalidDestination error whose only entry of a cell is its second
\* descriptor.
C24_IndexWitness ==
    /\ Finished({"InvalidDestination"})
    /\ \E p \in DOMAIN result.err : DOMAIN result.err[p] = {1}

\* The seven checks of try_from, read off the document.  Whether a connection
\* descriptor's attribute list is rejected is taken from
\* ConnectionAttributes::try_from itself.
DefinitionsCheckFails == RedefinedIds # {}

DefinitionAttrsCheckFails ==
    \E id \in DefinitionIds : DuplicatedKinds(DefinitionOf(id), NodeKinds) # {}

DefinitionConnectionsCheckFails ==
    \E id \in DefinitionIds : \E i \in DOMAIN DescsOf(DefinitionOf(id)) :
        ~ConnectionAttributesTryFrom(DescsOf(DefinitionOf(id))[i].attrs).ok

GridAttrsCheckFails ==
    \E p \in OccupiedPositions : DuplicatedKinds(AttrsAt(p), NodeKinds) # {}

GridConnectionsCheckFails ==
    \E p \in OccupiedPositions : \E i \in DOMAIN DescsOf(AttrsAt(p)) :
        ~ConnectionAttributesTryFrom(DescsOf(AttrsAt(p))[i].attrs).ok

LabelsCheckFails == DuplicatedLabels # {}

DestinationsCheckFails == FailingConnections # {}

\* The outcome of the first check that fails, in the order of try_from.
FirstFailure ==
    IF DefinitionsCheckFails THEN "DuplicateDefinitions"
    ELSE IF DefinitionAttrsCheckFails THEN "DuplicateNodeAttributesInDefinitions"
    ELSE IF DefinitionConnectionsCheckFails THEN "DuplicateConnectionAttributesInDefinitions"
    ELSE IF GridAttrsCheckFails THEN "DuplicateNodeAttributesInGrid"
    ELSE IF GridConnectionsCheckFails THEN "DuplicateConnectionAttributesInGrid"
    ELSE IF LabelsCheckFails THEN "DuplicateLabels"
    ELSE IF DestinationsCheckFails THEN "InvalidDestination"
    ELSE "Ok"

\* C25: try_from ends with the error of the first of its seven checks that
\* fails on the document, in the order DuplicateDefinitions,
\* DuplicateNodeAttributesInDefinitions,
\* DuplicateConnectionAttributesInDefinitions, DuplicateNodeAttributesInGrid,
\* DuplicateConnectionAttributesInGrid, DuplicateLabels, InvalidDestination,
\* and with Ok iff none fails.
C25_FailStopOrder ==
    pc = "done" => result.kind = FirstFailure

\* C25 witness: a document on which the checks of the definitions' node
\* attributes, of the grid's connection attributes, of the labels and of the
\* destinations all fail ends with the first of them.
C25_Witness ==
    /\ pc = "done"
    /\ ~DefinitionsCheckFails
    /\ DefinitionAttrsCheckFails
    /\ GridConnectionsCheckFails
    /\ LabelsCheckFails
    /\ DestinationsCheckFails
    /\ result.kind = "DuplicateNodeAttributesInDefinitions"

\* The link points differ, lie on a common row or column, and an occupied
\* cell lies on the segment between them.
StraightLineBlocked ==
    /\ OnCommonLine(LinkPoint(path_from), LinkPoint(path_to))
    /\ Segment(LinkPoint(path_from), LinkPoint(path_to)) \cap OccupiedPadded # {}

\* The unit vector from the from link point towards the to link point turned
\* a quarter clockwise (y grows downwards): (dx, dy) becomes (-dy, dx).
ClockwiseOffset ==
    LET dx == IF LinkPoint(path_to).x > LinkPoint(path_from).x THEN 1
              ELSE IF LinkPoint(path_to).x < LinkPoint(path_from).x THEN -1 ELSE 0
        dy == IF LinkPoint(path_to).y > LinkPoint(path_from).y THEN 1
              ELSE IF LinkPoint(path_to).y < LinkPoint(path_from).y THEN -1 ELSE 0
    IN  Pos(0 - dy, dx)

\* C26: when the link points differ, lie on a common row or column and the
\* segment between them is blocked by a node, the waypoints between the link
\* points are the two link points shifted by one step to the clockwise side
\* of the travel direction, both pure lane intersections within the padded
\* bounds of the grid.
C26_ClockwiseDetour ==
    (Routed /\ StraightLineBlocked) =>
        /\ MidWaypoints = <<PosAdd(LinkPoint(path_from), ClockwiseOffset),
                            PosAdd(LinkPoint(path_to), ClockwiseOffset)>>
        /\ \A i \in DOMAIN MidWaypoints :
              /\ from_pos(MidWaypoints[i]).count = 2
              /\ MidWaypoints[i].x \in 0..(2 * grid.size.x)
              /\ MidWaypoints[i].y \in 0..(2 * grid.size.y)

\* C26 witness: two different nodes of a row with a third node between them,
\* connected East to West, detour through the lane below the row.
C26_Witness ==
    /\ Routed
    /\ StraightLineBlocked
    /\ path_from.side = "East"
    /\ path_to.side = "West"
    /\ path_from.origin.x < path_to.origin.x
    /\ Len(path) = 6
    /\ path[3].y = FromCell.y + 1

\* C27: consecutive waypoints of the path of a connection of a built diagram
\* are different and differ in exactly one coordinate.
C27_SegmentsAxisAligned ==
    Routed =>
        \A i \in 1..(Len(path) - 1) :
            (path[i].x = path[i + 1].x) # (path[i].y = path[i + 1].y)

\* C29: in a built diagram every connection leaves an occupied cell of the
\* grid and leads to an occupied cell of the grid.
C29_EndpointsAreCells ==
    Finished({"Ok"}) =>
        \A i \in DOMAIN result.connections :
            /\ result.connections[i].from.pos \in OccupiedPositions
            /\ result.connections[i].to.pos \in OccupiedPositions

\* The number of coordinates of a padded position that lie on a lane.
LaneCoordinates(p) ==
    (IF p.x % 2 = 0 THEN 1 ELSE 0) + (IF p.y % 2 = 0 THEN 1 ELSE 0)

\* C28: when the link points share no row or column, the two corner
\* candidates have zero and two free axes or one each; get_best_corner does
\* not reach its unreachable arm, the corner it returns is not classified
\* Zero, and get_path does not reach its unreachable arm.
C28_UnreachableArms ==
    (Routed /\ LinkPoint(path_from).x # LinkPoint(path_to).x
            /\ LinkPoint(path_from).y # LinkPoint(path_to).y) =>
        /\ {LaneCoordinates(CornerCandidates[1]), LaneCoordinates(CornerCandidates[2])}
              \in {{0, 2}, {1}}
        /\ \A i \in 1..2 :
              from_pos(CornerCandidates[i]).count = LaneCoordinates(CornerCandidates[i])
        /\ ChosenCorner # Panicked
        /\ ChosenCorner.lane_count.count \in {1, 2}
        /\ path # NoPath

\* C28 witness: a routed connection between two different nodes whose cell
\* candidate is rejected, so that the candidate with two free axes is
\* returned as the larger of the two.
C28_Witness ==
    /\ Routed
    /\ CandidatesDiffer
    /\ FromCell # ToCell
    /\ ~can_make_direct_connection(grid, path_from, path_to, CellCandidate)
    /\ ChosenCorner = Corner(FreerCandidate, Two)
    /\ path # NoPath

\* One of the two loops has returned.
LoopReturned == pc \in {"walk_done", "padded_walk_done"}

\* C30: Grid::walk and Grid::padded_walk return, from every start position
\* inside or outside the bounds, with every unit step and every end position.
C30_LoopsTerminate == <>LoopReturned

\* C30 witness: padded_walk, started outside the bounds with no end position,
\* has crossed the whole grid and returned past its far side.
C30_Witness ==
    /\ pc = "padded_walk_done"
    /\ walk_end = None
    /\ walk_result = None
    /\ ~in_bounds(start, IndexToPadded(grid.size))
    /\ ~in_bounds(current, IndexToPadded(grid.size))
    /\ taxicab(start, current) > 2 * LoopW

====
